---- MODULE Spec2Model ----
(***************************************************************************)
(* pluginlib: the registration core (pluginlib/_parent.py), the plugin     *)
(* containers (pluginlib/_objects.py) and the loader (pluginlib/_loader.py)*)
(*                                                                         *)
(* The state is the process-wide registry PluginType.__plugins, the class  *)
(* objects created so far by the metaclass, the caches of the version      *)
(* containers, the loader object, the modules imported so far and the      *)
(* observable outcome of the last operation (value returned or exception   *)
(* raised, diagnostics emitted).  Python values are written as string      *)
(* tokens: "None" is None, "unset" marks a name that is not in a class     *)
(* namespace.                                                              *)
(***************************************************************************)
EXTENDS Integers, Sequences, FiniteSets, TLC

VARIABLES
    plugins,    \* PluginType.__plugins: group -> type -> [_parent, names: name -> version -> class]
    classes,    \* the class objects returned by PluginType.__new__; a class is its index
    last,       \* what the last operation did: inputs, exception, diagnostics
    program,    \* which application program (set of class statements) is being run
    caches,     \* PluginDict._cache of each version container: <<group, type, name>> -> cache
    loader,     \* the PluginLoader object of the application: its arguments and loaded flag
    sys_modules, \* sys.modules: the names of the modules imported so far
    threads     \* the threads of the application inside PluginDict._filter: their locals

vars == <<plugins, classes, last, program, caches, loader, sys_modules, threads>>

\* ---------------------------------------------------------------- bounds
MaxClasses == 4       \* classes created by the programs "duplicates" and "versions"
MaxPlugins == 3       \* classes created by the programs "groups" and "optout"
MaxCandidates == 1    \* classes defined after the extension point by the program "contract"
MaxEntries == 2       \* entries of a blacklist handed to PluginDict._filter
MaxBlacklist == 1     \* entries of the blacklist a view is first filtered by

\* ---------------------------------------------------------------- tokens
None == "None"
Unset == "unset"
DEFAULT == "_default"

EmptyDict == [x \in {} |-> x]

\* dict[key] = value on a function used as a dict
DictSet(d, k, v) == [x \in (DOMAIN d) \cup {k} |-> IF x = k THEN v ELSE d[x]]
\* del dict[key]
DictDel(d, k) == [x \in (DOMAIN d) \ {k} |-> d[x]]

\* ---------------------------------------------------------------- members
\* inspect.FullArgSpec of a callable
ArgSpec(args, annotations) ==
    [args |-> args, varargs |-> None, varkw |-> None, defaults |-> None,
     kwonlyargs |-> <<>>, kwonlydefaults |-> None, annotations |-> annotations]

NoSpec == ArgSpec(<<>>, "none")

\* A class-dict entry.  kind: what the object is; spec: its argument spec;
\* coro: defined with "async def"; abstract: carries __isabstractmethod__;
\* def: the class statement that created the object (object identity).
Member(kind, spec, coro, abstract) ==
    [kind |-> kind, spec |-> spec, coro |-> coro, abstract |-> abstract, def |-> 0]

Absent == Member("absent", NoSpec, FALSE, FALSE)
UNDEFINED == Member("UNDEF", NoSpec, FALSE, FALSE)

\* Order of the required members in a class body (dict order)
MemberOrder == <<"abstract2", "abstract">>
MemberNames == {MemberOrder[i] : i \in DOMAIN MemberOrder}

NoMembers == [n \in MemberNames |-> Absent]

\* The objects of a class body belong to the class statement that ran
Owned(members, id) ==
    [n \in MemberNames |->
        IF members[n].kind = "absent" THEN members[n] ELSE [members[n] EXCEPT !.def = id]]

\* ---------------------------------------------------------------- classes
\* Class attributes of the Plugin mixin, the last class of every MRO
PluginDefaults == [alias |-> None, version |-> None, skipload_ |-> "False"]

\* Attribute lookup cls.<field> along the MRO of single inheritance
RECURSIVE GetAttr(_, _, _)
GetAttr(cs, rec, field) ==
    IF rec[field] # Unset THEN rec[field]
    ELSE IF rec.base = 0 THEN PluginDefaults[field]
    ELSE GetAttr(cs, cs[rec.base], field)

\* Python truth value of a flag, alias, version or group token
Truthy(v) == v \notin {None, "False", Unset}

\* Plugin.name: _alias_ if set, else the class name
PluginName(cs, rec) ==
    LET alias == GetAttr(cs, rec, "alias")
    IN IF Truthy(alias) THEN alias ELSE rec.name

\* Variant: the module's __version__ is preferred to _version_
PluginVersionModuleFirst(cs, rec, module_version) ==
    IF module_version # None THEN module_version ELSE GetAttr(cs, rec, "version")

\* Plugin.version: _version_ if set, else the module's __version__, else None
PluginVersion(cs, rec, module_version) ==
    LET version == GetAttr(cs, rec, "version")
    IN IF Truthy(version) THEN version ELSE module_version

\* STR(new.version or 0)
VersionKey(cs, rec, module_version) ==
    LET version == PluginVersion(cs, rec, module_version)
    IN IF Truthy(version) THEN version ELSE "0"

\* Variant: the namespace is left as written, so a flag the body does not set is
\* looked up on the bases
NamespaceInherit(ns) == ns

\* for attr in ('_parent_', '_skipload_'): if attr not in namespace: namespace[attr] = False
NamespaceDefaults(ns) ==
    [ns EXCEPT !.parent_ = IF @ = Unset THEN "False" ELSE @,
               !.skipload_ = IF @ = Unset THEN "False" ELSE @]

\* base.__dict__[name] of the first class of the MRO that has the name
RECURSIVE FindMember(_, _, _)
FindMember(cs, rec, name) ==
    IF rec.members[name].kind # "absent" THEN rec.members[name]
    ELSE IF rec.base = 0 THEN Absent
    ELSE FindMember(cs, cs[rec.base], name)

\* The most derived member of that name flagged abstract (walk of reversed MRO)
RECURSIVE HarvestName(_, _, _)
HarvestName(cs, rec, name) ==
    IF rec.members[name].abstract THEN rec.members[name]
    ELSE IF rec.base = 0 THEN Absent
    ELSE HarvestName(cs, cs[rec.base], name)

AbstractMethods(cs, rec) == [n \in MemberNames |-> HarvestName(cs, rec, n)]

\* ---------------------------------------------------------------- ClassInspector
SkipCallable == {"call:False", "call:True", "call:(True,msg)", "call:(False,msg)"}

\* What the callable returns: is it a tuple, its (first) truth value, its message
SkipCall(flag) ==
    [tuple |-> flag \in {"call:(True,msg)", "call:(False,msg)"},
     skip |-> flag \in {"call:True", "call:(True,msg)"},
     message |-> IF flag \in {"call:(True,msg)", "call:(False,msg)"} THEN "msg" ELSE None]

Verdict(errorcode, message) == [errorcode |-> errorcode, message |-> message]

\* Variant: the value a callable flag returns is tested as it is, so any pair is true
_check_skipload_whole_result(flag) ==
    IF flag \in SkipCallable
    THEN LET result == SkipCall(flag)
         IN IF result.tuple \/ result.skip THEN Verdict(156, result.message)
            ELSE Verdict(0, None)
    ELSE IF Truthy(flag) THEN Verdict(50, "Skipload flag is True")
    ELSE Verdict(0, None)

_check_skipload(flag) ==
    IF flag \in SkipCallable
    THEN LET result == SkipCall(flag)
             message == IF result.tuple THEN result.message ELSE None
         IN IF result.skip THEN Verdict(156, message) ELSE Verdict(0, message)
    ELSE IF Truthy(flag) THEN Verdict(50, "Skipload flag is True")
    ELSE Verdict(0, None)

isfunction(m) == m.kind = "method"
iscoroutinefunction(m) == m.kind = "method" /\ m.coro

ArgSpecKeys == {"args", "varargs", "varkw", "defaults", "kwonlyargs", "kwonlydefaults",
                "annotations"}

\* Variant: the positional parameters are skipped instead of the annotations
_compare_argspec_skip_args(v, spec_1, spec_2) ==
    LET matches == \A key \in ArgSpecKeys \ {"args"} : spec_2[key] = spec_1[key]
    IN IF matches THEN v ELSE Verdict(220, "Argument spec does not match parent for method")

_compare_argspec(v, spec_1, spec_2) ==
    LET matches == \A key \in ArgSpecKeys \ {"annotations"} : spec_2[key] = spec_1[key]
    IN IF matches THEN v ELSE Verdict(220, "Argument spec does not match parent for method")

\* Variant: any member that is present passes for a property
_check_property_present(v, submethod) ==
    IF submethod = UNDEFINED
    THEN Verdict(210, "Does not contain required property")
    ELSE v

_check_property(v, submethod) ==
    IF submethod = UNDEFINED \/ submethod.kind # "property"
    THEN Verdict(210, "Does not contain required property")
    ELSE v

_check_static_method(v, method, submethod) ==
    IF submethod = UNDEFINED \/ submethod.kind # "static"
    THEN Verdict(211, "Does not contain required static method")
    ELSE _compare_argspec(v, method.spec, submethod.spec)

_check_class_method(v, method, submethod) ==
    IF submethod = UNDEFINED \/ submethod.kind # "class"
    THEN Verdict(212, "Does not contain required class method")
    ELSE _compare_argspec(v, method.spec, submethod.spec)

_check_generic_method(v, method, submethod) ==
    IF submethod = UNDEFINED \/ ~isfunction(submethod)
    THEN Verdict(213, "Does not contain required method")
    ELSE _compare_argspec(v, method.spec, submethod.spec)

_check_coroutine_method(v, method, submethod) ==
    IF iscoroutinefunction(method) /\ ~iscoroutinefunction(submethod)
    THEN Verdict(215, "Does not contain required coroutine method")
    ELSE v

_check_annotations(v, method, submethod) ==
    LET meth_annotations == method.spec.annotations
        submeth_annotations == submethod.spec.annotations
    IN IF /\ meth_annotations # "none"
          /\ submeth_annotations # "none"
          /\ meth_annotations # submeth_annotations
       THEN Verdict(216, "Type annotations differ")
       ELSE v

\* One pass of the loop body of _check_methods: submethod is already resolved
CheckMethod(v, method, submethod) ==
    LET v1 == CASE method.kind = "property" -> _check_property(v, submethod)
                [] method.kind = "static" -> _check_static_method(v, method, submethod)
                [] method.kind = "class" -> _check_class_method(v, method, submethod)
                [] isfunction(method) -> _check_generic_method(v, method, submethod)
                [] OTHER -> IF submethod = UNDEFINED
                            THEN Verdict(214, "Does not contain required attribute")
                            ELSE v
        v2 == IF v1.errorcode = 0 THEN _check_coroutine_method(v1, method, submethod) ELSE v1
    IN IF v2.errorcode = 0 THEN _check_annotations(v2, method, submethod) ELSE v2

\* _check_methods from the i-th required member on.  st.submethod is the local
\* variable of the loop: it keeps its value when no class of the MRO has the
\* name, and reading it before any assignment raises UnboundLocalError.
RECURSIVE CheckMethodsFrom(_, _, _, _, _)
CheckMethodsFrom(cs, cls, subclass, i, st) ==
    IF i > Len(MemberOrder) \/ st.raised THEN st
    ELSE LET name == MemberOrder[i]
             method == cls.abstractmethods[name]
         IN IF method.kind = "absent" THEN CheckMethodsFrom(cs, cls, subclass, i + 1, st)
            ELSE IF st.v.errorcode # 0 THEN st
            ELSE LET found == FindMember(cs, subclass, name)
                     bound == IF found.kind # "absent" THEN found ELSE st.submethod
                 IN IF bound.kind = "unbound"
                    THEN [st EXCEPT !.raised = TRUE]
                    ELSE LET submethod == IF bound = method THEN UNDEFINED ELSE bound
                         IN CheckMethodsFrom(cs, cls, subclass, i + 1,
                                [v |-> CheckMethod(st.v, method, submethod),
                                 submethod |-> submethod,
                                 checked |-> st.checked + 1,
                                 raised |-> FALSE])

_check_methods(cs, cls, subclass, v) ==
    CheckMethodsFrom(cs, cls, subclass, 1,
        [v |-> v, submethod |-> Member("unbound", NoSpec, FALSE, FALSE),
         checked |-> 0, raised |-> FALSE])

\* ClassInspector(cls, subclass): errorcode, message, the number of required
\* members looked at, and whether the inspection raised
ClassInspector(cs, cls, subclass) ==
    LET v == _check_skipload(GetAttr(cs, subclass, "skipload_"))
    IN IF v.errorcode # 0
       THEN [v |-> v, checked |-> 0, raised |-> FALSE]
       ELSE LET st == _check_methods(cs, cls, subclass, v)
            IN [v |-> st.v, checked |-> st.checked, raised |-> st.raised]

\* ---------------------------------------------------------------- PluginType
\* A diagnostic: LOGGER.debug / LOGGER.info line, or warnings.warn(.., PluginWarning)
Diag(channel, text) == [channel |-> channel, text |-> text]

\* Variant: every code from 100 on is a warning
SkipDiagWarnFrom100(errorcode) ==
    IF errorcode < 100 THEN Diag("debug", "Skipping")
    ELSE Diag("PluginWarning", "Skipping")

\* Severity policy of a rejected candidate
SkipDiag(errorcode) ==
    IF errorcode < 100 THEN Diag("debug", "Skipping")
    ELSE IF errorcode < 200 THEN Diag("info", "Skipping")
    ELSE Diag("PluginWarning", "Skipping")

\* TypeDict(parent): an empty name dict anchored to its parent class
TypeDict(parent) == [_parent |-> parent, names |-> EmptyDict]

\* group[type].setdefault(name, PluginDict())[version] = new
Register(group, type, name, version, new) ==
    LET typedict == group[type]
        plugindict == IF name \in DOMAIN typedict.names THEN typedict.names[name] ELSE EmptyDict
    IN DictSet(group, type,
               [typedict EXCEPT !.names = DictSet(@, name, DictSet(plugindict, version, new))])

\* "if new._type_ in group"
TypeDeclared(group, _type_) == _type_ \in DOMAIN group

\* Variant: every class counts as a parent
IsParentAlways(cs, rec) == TRUE

\* "if new._parent_"
IsParent(cs, rec) == Truthy(GetAttr(cs, rec, "parent_"))

\* Variant: any version registered under the name makes a duplicate
IsDuplicateName(plugindict, version) == plugindict # EmptyDict

\* "if plugindict and version in plugindict": an absent name gives UNDEFINED and
\* an empty PluginDict is falsy
IsDuplicate(plugindict, version) == plugindict # EmptyDict /\ version \in DOMAIN plugindict

\* The outcome of PluginType.__new__
Outcome(reg, rec, raised, outcome, v, checked, diag, name, version) ==
    [plugins |-> reg, rec |-> rec, raised |-> raised, outcome |-> outcome,
     errorcode |-> v.errorcode, message |-> v.message, checked |-> checked,
     diag |-> diag, name |-> name, version |-> version]

\* PluginType.__new__(cls, name, bases, namespace) on registry reg, with the
\* classes cs in existence; new is the identity of the class being created and
\* module_version the __version__ of its defining module (None when it has none).
PluginTypeNew(reg, cs, namespace, new, module_version) ==
    LET rec == NamespaceDefaults(namespace)
        _group_ == GetAttr(cs, rec, "group")
        _type_ == GetAttr(cs, rec, "type")
        gkey == IF Truthy(_group_) THEN _group_ ELSE DEFAULT
        \* cls.__plugins.setdefault(gkey, GroupDict())
        reg1 == IF gkey \in DOMAIN reg THEN reg ELSE DictSet(reg, gkey, EmptyDict)
        group == reg1[gkey]
        name == PluginName(cs, rec)
        version == VersionKey(cs, rec, module_version)
        none == Verdict(0, None)
    IN IF TypeDeclared(group, _type_)
       THEN IF IsParent(cs, rec)
            THEN Outcome(reg1, rec, "ValueError: parent must be unique", "error",
                         none, 0, <<>>, name, version)
            ELSE LET names == group[_type_].names
                     plugindict == IF name \in DOMAIN names THEN names[name] ELSE EmptyDict
                 IN IF IsDuplicate(plugindict, version)
                    THEN Outcome(reg1, rec, None, "duplicate", none, 0,
                                 <<Diag("PluginWarning", "Duplicate plugins found")>>,
                                 name, version)
                    ELSE LET result == ClassInspector(cs, cs[group[_type_]._parent], rec)
                         IN IF result.raised
                            THEN Outcome(reg1, rec, "UnboundLocalError", "error",
                                         result.v, result.checked, <<>>, name, version)
                            ELSE IF result.v.errorcode = 0
                            THEN Outcome(DictSet(reg1, gkey,
                                             Register(group, _type_, name, version, new)),
                                         rec, None, "registered", result.v, result.checked,
                                         <<>>, name, version)
                            ELSE Outcome(reg1, rec, None, "rejected", result.v, result.checked,
                                         <<SkipDiag(result.v.errorcode)>>, name, version)
       ELSE IF IsParent(cs, rec)
            THEN Outcome(DictSet(reg1, gkey, DictSet(group, _type_, TypeDict(new))),
                         [rec EXCEPT !.abstractmethods = AbstractMethods(cs, rec)],
                         None, "parent", none, 0, <<>>, name, version)
            ELSE Outcome(reg1, rec, "ValueError: Unknown parent type", "error",
                         none, 0, <<>>, name, version)

\* PluginType._get_plugins: the type container of the class, or a KeyError
HasPlugins(reg, cs, rec) ==
    LET _group_ == GetAttr(cs, rec, "group")
        gkey == IF Truthy(_group_) THEN _group_ ELSE DEFAULT
    IN gkey \in DOMAIN reg /\ GetAttr(cs, rec, "type") \in DOMAIN reg[gkey]

_get_plugins(reg, cs, rec) ==
    LET _group_ == GetAttr(cs, rec, "group")
        gkey == IF Truthy(_group_) THEN _group_ ELSE DEFAULT
    IN reg[gkey][GetAttr(cs, rec, "type")]

\* ---------------------------------------------------------------- Parent
\* Parent.__call__, first part: "In case we're inheriting another parent,
\* clean registry".  c is the class being decorated.
RemoveList(reg, cs, c) ==
    LET typedict == _get_plugins(reg, cs, cs[c])
        name == PluginName(cs, cs[c])
        plugins_ == IF name \in DOMAIN typedict.names THEN typedict.names[name] ELSE EmptyDict
    IN {pver \in DOMAIN plugins_ : plugins_[pver] = c}

\* Variant: the name is deleted as soon as one of its entries is removed
RemoveNameAny(plugins_, remove) == plugins_ # EmptyDict /\ remove # {}

\* "if plugins and len(remove) == len(plugins)": delete the whole name
RemoveName(plugins_, remove) ==
    plugins_ # EmptyDict /\ Cardinality(remove) = Cardinality(DOMAIN plugins_)

CleanRegistry(reg, cs, c) ==
    LET rec == cs[c]
        _group_ == GetAttr(cs, rec, "group")
        gkey == IF Truthy(_group_) THEN _group_ ELSE DEFAULT
        _type_ == GetAttr(cs, rec, "type")
        typedict == _get_plugins(reg, cs, rec)
        name == PluginName(cs, rec)
        plugins_ == IF name \in DOMAIN typedict.names THEN typedict.names[name] ELSE EmptyDict
        remove == RemoveList(reg, cs, c)
        names == IF RemoveName(plugins_, remove)
                 THEN DictDel(typedict.names, name)
                 ELSE IF remove = {} THEN typedict.names
                 ELSE DictSet(typedict.names, name,
                              [pver \in (DOMAIN plugins_) \ remove |-> plugins_[pver]])
    IN DictSet(reg, gkey, DictSet(reg[gkey], _type_, [typedict EXCEPT !.names = names]))

\* Parent.__call__, second part: the namespace of the class that replaces cls
\* (dict_ = cls.__dict__.copy() with _type_, _group_ and the two flags set)
ParentNamespace(rec, plugin_type, group) ==
    [rec EXCEPT !.type = IF Truthy(plugin_type) THEN plugin_type ELSE rec.name,
                !.group = group,
                !.parent_ = "True",
                !.skipload_ = "True"]

\* ---------------------------------------------------------------- programs
\* The class statements and decorator calls the running application contains.
Programs == {"duplicates", "versions", "groups", "contract", "optout"}

MethSelf == Member("method", ArgSpec(<<"self">>, "none"), FALSE, FALSE)
MethSelfArg == Member("method", ArgSpec(<<"self", "some_arg">>, "none"), FALSE, FALSE)
MethStr == Member("method", ArgSpec(<<"self">>, "str"), FALSE, FALSE)
MethInt == Member("method", ArgSpec(<<"self">>, "int"), FALSE, FALSE)
Coroutine == Member("method", ArgSpec(<<"self">>, "none"), TRUE, FALSE)
Static == Member("static", ArgSpec(<<>>, "none"), FALSE, FALSE)
StaticArg == Member("static", ArgSpec(<<"some_arg">>, "none"), FALSE, FALSE)
Klass == Member("class", ArgSpec(<<"cls">>, "none"), FALSE, FALSE)
KlassArg == Member("class", ArgSpec(<<"cls", "some_arg">>, "none"), FALSE, FALSE)
Prop == Member("property", NoSpec, FALSE, FALSE)
Attr == Member("attribute", NoSpec, FALSE, FALSE)

Abstract(m) == [m EXCEPT !.abstract = TRUE]
Only(m) == [n \in MemberNames |-> IF n = "abstract" THEN m ELSE Absent]
Both(m, m2) == [n \in MemberNames |-> IF n = "abstract" THEN m ELSE m2]

\* A class statement "class <name>(<base>): <body>"
Body(name, alias, version, skipload_, members) ==
    [name |-> name, alias |-> alias, version |-> version, skipload_ |-> skipload_,
     parent_ |-> Unset, members |-> members]

\* The classes of the test suite for each required kind (tests/test_parent.py)
ContractParents ==
    {Body("Parent", Unset, Unset, Unset, Only(Abstract(m))) :
        m \in {MethSelf, MethSelfArg, Static, StaticArg, Klass, KlassArg, Prop, Attr,
               Coroutine, MethStr}}
    \cup {Body("Parent", Unset, Unset, Unset, Both(Abstract(MethSelf), Abstract(MethSelf)))}

ContractChildren ==
    {Body("Missing", Unset, Unset, Unset, NoMembers),
     Body("Meth", Unset, Unset, Unset, Only(MethSelf)),
     Body("Static", Unset, Unset, Unset, Only(Static)),
     Body("Klass", Unset, Unset, Unset, Only(Klass)),
     Body("Prop", Unset, Unset, Unset, Only(Prop)),
     Body("Attr", Unset, Unset, Unset, Only(Attr)),
     Body("Coroutine", Unset, Unset, Unset, Only(Coroutine)),
     Body("TypeHints1", Unset, Unset, Unset, Only(MethStr)),
     Body("TypeHints2", Unset, Unset, Unset, Only(MethInt)),
     Body("Multiple", Unset, Unset, Unset, Both(MethSelf, MethSelf))}

SkipFlags == {Unset, "False", "True"} \cup SkipCallable

PlainClasses(p) ==
    CASE p = "contract" -> ContractParents
      [] p = "optout" -> {Body("Parent", Unset, Unset, Unset, Only(Abstract(MethSelf)))}
      [] OTHER -> {Body("Parent", Unset, Unset, Unset, NoMembers)}

Bodies(p) ==
    CASE p = "contract" -> ContractChildren
      [] p = "optout" ->
            {Body("Missing", Unset, Unset, f, NoMembers) : f \in SkipFlags}
            \cup {Body("Meth", Unset, Unset, f, Only(MethSelf)) : f \in SkipFlags}
      [] p = "duplicates" ->
            {Body("Child", a, v, Unset, NoMembers) : a \in {Unset, "foo"}, v \in {Unset, "1.0"}}
      [] p = "versions" ->
            {Body("Child", Unset, v, Unset, NoMembers) : v \in {Unset, "1.0.1"}}
      [] p \in {"equal", "unequal", "older", "newer", "between", "outside"} ->
            {Body("Child", Unset, v, Unset, NoMembers) : v \in {"1.0", "2.0", "3.0"}}
      [] p = "spellings" ->
            {Body("Child", Unset, v, Unset, NoMembers) : v \in {"1.0", "1.0.0"}}
      [] OTHER -> {Body("Child", Unset, Unset, Unset, NoMembers)}

\* Arguments of the Parent decorator: plugin_type and group
ParentArgs(p) ==
    IF p = "groups"
    THEN {[plugin_type |-> t, group |-> g] : t \in {None, "test_parent"}, g \in {None, "A-Team"}}
    ELSE {[plugin_type |-> "test_parent", group |-> None]}

\* __version__ of the module that holds the class statement
ModuleVersions(p) == IF p = "versions" THEN {None, "2.0.0"} ELSE {None}

\* The number of classes a run of each program creates
ClassBudget(p) ==
    CASE p = "contract" -> 1 + MaxCandidates
      [] p \in {"optout", "groups"} -> MaxPlugins
      [] p \in {"equal", "unequal", "older", "newer", "between", "outside", "spellings"} ->
            1 + Cardinality(Bodies(p))
      [] OTHER -> MaxClasses

\* ---------------------------------------------------------------- actions
NoNamespace ==
    [name |-> None, base |-> 0, alias |-> Unset, version |-> Unset, type |-> Unset,
     group |-> Unset, parent_ |-> Unset, skipload_ |-> Unset, members |-> NoMembers,
     abstractmethods |-> NoMembers]

\* The namespace a class statement hands to the metaclass
Namespace(body, base, new) ==
    [name |-> body.name, base |-> base, alias |-> body.alias, version |-> body.version,
     type |-> Unset, group |-> Unset, parent_ |-> body.parent_,
     skipload_ |-> body.skipload_, members |-> Owned(body.members, new),
     abstractmethods |-> NoMembers]

\* The record of an operation: op, the class decorated (target) and the versions
\* Parent.__call__ removed for it, the namespace
\* and module version given, the class returned (cls, 0 when none), the
\* exception raised (None when none) and what PluginType.__new__ reported
Last(op, target, removed, ns, module_version, cls, r) ==
    [op |-> op, target |-> target, removed |-> removed, ns |-> ns,
     module_version |-> module_version,
     cls |-> cls, raised |-> r.raised, outcome |-> r.outcome,
     errorcode |-> r.errorcode, message |-> r.message, checked |-> r.checked,
     diag |-> r.diag, name |-> r.name, version |-> r.version,
     query |-> None, result |-> None, log |-> <<>>]

NoOutcome(raised, outcome) ==
    [raised |-> raised, outcome |-> outcome, errorcode |-> 0, message |-> None,
     checked |-> 0, diag |-> <<>>, name |-> None, version |-> None]

\* No PluginLoader has been constructed
NoLoader ==
    [constructed |-> FALSE, group |-> DEFAULT, library |-> None, modules |-> <<>>,
     paths |-> <<>>, entry_point |-> None, blacklist |-> <<>>, type_filter |-> {},
     loaded |-> FALSE]

\* The version dict registered under name n of type t in group g (empty when none)
Versions(reg, g, t, n) ==
    IF g \in DOMAIN reg /\ t \in DOMAIN reg[g] /\ n \in DOMAIN reg[g][t].names
    THEN reg[g][t].names[n] ELSE EmptyDict

\* Variant: a change of a version container leaves its cache as it was
Unvalidated(cache, reg, new) == cache

\* CachingDict: every change of a version container clears its cache; a
\* container that leaves the registry takes its cache with it
Invalidate(cache, reg, new) ==
    [k \in {key \in DOMAIN cache :
                /\ Versions(new, key[1], key[2], key[3]) # EmptyDict
                /\ Versions(new, key[1], key[2], key[3]) = Versions(reg, key[1], key[2], key[3])}
        |-> cache[k]]

\* The process before the application has run anything
Started ==
    /\ plugins = DictSet(EmptyDict, DEFAULT, EmptyDict)
    /\ classes = <<>>
    /\ last = Last("init", 0, {}, NoNamespace, None, 0, NoOutcome(None, "none"))
    /\ caches = EmptyDict
    /\ loader = NoLoader
    /\ sys_modules = {}
    /\ threads = <<>>

Init == program \in Programs /\ Started

\* The effect of a call of PluginType.__new__ that gave r: the registry it left,
\* the class it returned (none when it raised) and the record of the operation
Return(op, target, removed, ns, module_version, r) ==
    /\ plugins' = r.plugins
    /\ classes' = IF r.raised = None THEN Append(classes, r.rec) ELSE classes
    /\ last' = Last(op, target, removed, ns, module_version,
                    IF r.raised = None THEN Len(classes) + 1 ELSE 0, r)
    /\ caches' = Invalidate(caches, plugins, r.plugins)
    /\ UNCHANGED <<program, loader, sys_modules, threads>>

\* class <body.name>(<base>): ... in a module whose __version__ is module_version
DefineClass(base, body, module_version) ==
    /\ Len(classes) < ClassBudget(program)
    /\ \E ns \in {Namespace(body, base, Len(classes) + 1)} :
       \E r \in {PluginTypeNew(plugins, classes, ns, Len(classes) + 1, module_version)} :
          Return("class", 0, {}, ns, module_version, r)

\* Parent(plugin_type, group)(cls) for a class cls that is no PluginType
DecoratePlain(body, args) ==
    /\ Len(classes) < ClassBudget(program)
    /\ \E ns \in {ParentNamespace(Namespace(body, 0, Len(classes) + 1),
                                    args.plugin_type, args.group)} :
       \E r \in {PluginTypeNew(plugins, classes, ns, Len(classes) + 1, None)} :
          Return("Parent", 0, {}, ns, None, r)

\* Parent(plugin_type, group)(cls) for a class cls made by PluginType
DecoratePlugin(c, args) ==
    /\ Len(classes) < ClassBudget(program)
    /\ \E ns \in {ParentNamespace(classes[c], args.plugin_type, args.group)} :
          IF ~HasPlugins(plugins, classes, classes[c])
          THEN /\ last' = Last("Parent", c, {}, ns, None, 0, NoOutcome("KeyError", "error"))
               /\ UNCHANGED <<plugins, classes, program, caches, loader, sys_modules, threads>>
          ELSE \E r \in {PluginTypeNew(CleanRegistry(plugins, classes, c), classes, ns,
                                       Len(classes) + 1, None)} :
                  Return("Parent", c, RemoveList(plugins, classes, c), ns, None, r)

\* get_plugins().clear()
ClearRegistry ==
    /\ plugins' = EmptyDict
    /\ last' = Last("clear", 0, {}, NoNamespace, None, 0, NoOutcome(None, "none"))
    /\ caches' = EmptyDict
    /\ UNCHANGED <<classes, program, loader, sys_modules, threads>>

Next ==
    \/ \E base \in 1..Len(classes), body \in Bodies(program),
          module_version \in ModuleVersions(program) :
            DefineClass(base, body, module_version)
    \/ \E body \in PlainClasses(program), args \in ParentArgs(program) :
            DecoratePlain(body, args)
    \/ \E c \in 1..Len(classes), args \in ParentArgs(program) :
            DecoratePlugin(c, args)
    \/ ClearRegistry

Spec == Init /\ [][Next]_vars

\* ---------------------------------------------------------------- observations
\* The registry key of the group of a class
GroupKey(cs, rec) ==
    LET _group_ == GetAttr(cs, rec, "group")
    IN IF Truthy(_group_) THEN _group_ ELSE DEFAULT

HasType(reg, g, t) == g \in DOMAIN reg /\ t \in DOMAIN reg[g]

TypeKeys(reg) == {<<g, t>> : g \in DOMAIN reg, t \in UNION {DOMAIN reg[h] : h \in DOMAIN reg}}
                    \cap {gt \in (DOMAIN reg) \X UNION {DOMAIN reg[h] : h \in DOMAIN reg} :
                            gt[2] \in DOMAIN reg[gt[1]]}

\* Every (group, type, name, version, class) the registry holds
Entries(reg) ==
    UNION {UNION {{<<gt[1], gt[2], n, v, reg[gt[1]][gt[2]].names[n][v]>> :
                        v \in DOMAIN reg[gt[1]][gt[2]].names[n]} :
                    n \in DOMAIN reg[gt[1]][gt[2]].names} :
            gt \in TypeKeys(reg)}

\* The extension point a candidate namespace is validated against has no
\* required member and the candidate does not opt out
Unconstrained(reg, cs, ns) ==
    /\ \A m \in MemberNames :
          cs[reg[GroupKey(cs, ns)][GetAttr(cs, ns, "type")]._parent].abstractmethods[m].kind
            = "absent"
    /\ ns.skipload_ \in {Unset, "False"}

DuplicateWarning == <<Diag("PluginWarning", "Duplicate plugins found")>>

\* ---------------------------------------------------------------- C1
\* C1: a candidate implementation whose (name, version key) is already in the
\* registry of its extension point leaves the registry as it was (the first
\* class stays at the key), is not inserted, raises nothing and gets exactly one
\* duplicate-plugin warning; a conforming candidate with a registered name but
\* a version key that is not registered yet is inserted next to the entries
\* that name already has.
C1_DuplicateKeepsFirst ==
    [][LET ns == last'.ns
           g == GroupKey(classes, ns)
           t == GetAttr(classes, ns, "type")
           old == Versions(plugins, g, t, last'.name)
       IN (last'.op = "class" /\ HasType(plugins, g, t)) =>
            /\ last'.version \in DOMAIN old =>
                  /\ plugins' = plugins
                  /\ last'.raised = None
                  /\ last'.diag = DuplicateWarning
            /\ (old # EmptyDict /\ last'.version \notin DOMAIN old
                    /\ Unconstrained(plugins, classes, ns)) =>
                  /\ Versions(plugins', g, t, last'.name)
                        = DictSet(old, last'.version, Len(classes) + 1)
                  /\ last'.diag = <<>>
      ]_vars

\* A duplicate has just been turned away from a name that holds two versions
C1_Witness ==
    /\ last.op = "class"
    /\ last.outcome = "duplicate"
    /\ last.diag = DuplicateWarning
    /\ LET rec == classes[last.cls]
           versions == Versions(plugins, GroupKey(classes, rec), GetAttr(classes, rec, "type"),
                                last.name)
       IN /\ Cardinality(DOMAIN versions) = 2
          /\ versions[last.version] # last.cls

\* ---------------------------------------------------------------- C2
\* The registry key (group, type) a Parent call declares
DeclaredGroup == IF Truthy(last.ns.group) THEN last.ns.group ELSE DEFAULT
DeclaredType == last.ns.type

\* C2: declaring an extension point whose type exists in the group raises
\* ValueError 'parent must be unique' and the type container and its anchoring
\* class stay as they were.
C2_Original ==
    [][(last'.op = "Parent" /\ HasType(plugins, DeclaredGroup', DeclaredType')) =>
            /\ last'.raised = "ValueError: parent must be unique"
            /\ HasType(plugins', DeclaredGroup', DeclaredType')
            /\ plugins'[DeclaredGroup'][DeclaredType'] = plugins[DeclaredGroup'][DeclaredType']
      ]_vars

\* Every type container is anchored to a class that declares that group and type
AnchorsAgree ==
    \A gt \in TypeKeys(plugins) :
        LET anchor == plugins[gt[1]][gt[2]]._parent
        IN /\ anchor \in 1..Len(classes)
           /\ classes[anchor].parent_ = "True"
           /\ classes[anchor].type = gt[2]
           /\ GroupKey(classes, classes[anchor]) = gt[1]

\* What PluginType.__new__ and Parent.__call__ do keep of C2: a declaration of
\* a type that exists in the group never replaces the type container's anchor
\* and creates no class; it raises ValueError 'parent must be unique', or
\* KeyError when the class being decorated is a plugin class whose own type
\* container is gone; the entries of the registry stay, except those holding
\* the decorated class itself, which Parent.__call__ removes before the
\* declaration fails.  A type that does not exist in the group is declared
\* there, whatever the other groups hold.
C2_UniqueParent ==
    [][/\ AnchorsAgree'
       /\ last'.op = "Parent" =>
            LET g == DeclaredGroup'
                t == DeclaredType'
                target == last'.target
                gone == target # 0 /\ ~HasPlugins(plugins, classes, classes[target])
            IN /\ HasType(plugins, g, t) =>
                    /\ last'.raised = IF gone THEN "KeyError"
                                      ELSE "ValueError: parent must be unique"
                    /\ classes' = classes
                    /\ TypeKeys(plugins') = TypeKeys(plugins)
                    /\ plugins'[g][t]._parent = plugins[g][t]._parent
                    /\ Entries(plugins') = {e \in Entries(plugins) : e[5] # target}
               /\ (~HasType(plugins, g, t) /\ ~gone) =>
                    /\ last'.raised = None
                    /\ plugins'[g][t] = TypeDict(last'.cls)
                    /\ \A gt \in TypeKeys(plugins) :
                          /\ gt \in TypeKeys(plugins')
                          /\ plugins'[gt[1]][gt[2]]._parent = plugins[gt[1]][gt[2]]._parent
      ]_vars

\* ---------------------------------------------------------------- C3
\* C3: the class statement of an ordinary implementation (not marked as a
\* parent) whose type is not in the registry of its group raises ValueError
\* 'Unknown parent type', returns no class and registers nothing.
C3_UnknownParent ==
    [][LET ns == last'.ns
       IN (/\ last'.op = "class"
           /\ ~Truthy(ns.parent_)
           /\ ~HasType(plugins, GroupKey(classes, ns), GetAttr(classes, ns, "type"))) =>
            /\ last'.raised = "ValueError: Unknown parent type"
            /\ last'.cls = 0
            /\ classes' = classes
            /\ Entries(plugins') = Entries(plugins)
            /\ TypeKeys(plugins') = TypeKeys(plugins)
      ]_vars

\* A class statement has just failed on a cleared registry
C3_Witness ==
    /\ last.op = "class"
    /\ last.raised = "ValueError: Unknown parent type"
    /\ classes # <<>>
    /\ TypeKeys(plugins) = {}

\* ---------------------------------------------------------------- validation, observed
\* The class the last class statement returned, its extension point and whether
\* it sits in the registry under its own key
Cand == classes[last.cls]
CandGroup == GroupKey(classes, Cand)
CandType == GetAttr(classes, Cand, "type")
Anchor == classes[plugins[CandGroup][CandType]._parent]

IsRegistered ==
    LET versions == Versions(plugins, CandGroup, CandType, last.name)
    IN last.version \in DOMAIN versions /\ versions[last.version] = last.cls

NotInRegistry == \A e \in Entries(plugins) : e[5] # last.cls

\* The last operation was a class statement whose candidate went through
\* ClassInspector (neither a duplicate nor an exception)
Validated == last.op = "class" /\ last.outcome \in {"registered", "rejected"}

\* The candidate's own never-load flag is true, or is a callable returning a
\* true value or a pair whose first element is true
OptsOut(flag) == flag \in {"True", "call:True", "call:(True,msg)"}

\* The extension point requires the member "abstract" and nothing else
Required == Anchor.abstractmethods["abstract"]
SingleRequirement ==
    /\ Required.kind # "absent"
    /\ \A n \in MemberNames \ {"abstract"} : Anchor.abstractmethods[n].kind = "absent"

\* What the candidate offers for the required name
Found == FindMember(classes, Cand, "abstract")

\* The kind of a required member and the shape of what a candidate offers
RequiredKind(m) ==
    IF m.kind # "method" THEN m.kind
    ELSE IF m.coro THEN "coroutine"
    ELSE IF m.spec.annotations # "none" THEN "annotated"
    ELSE "method"

Shape(required, found) ==
    IF found.kind = "absent" \/ found = required THEN "missing" ELSE found.kind

SameParameters(a, b) == [a EXCEPT !.annotations = "none"] = [b EXCEPT !.annotations = "none"]

KindCode(kind) ==
    CASE kind = "property" -> 210
      [] kind = "static" -> 211
      [] kind = "class" -> 212
      [] kind = "method" -> 213
      [] kind = "attribute" -> 214
      [] kind = "coroutine" -> 215
      [] kind = "annotated" -> 216

\* ---------------------------------------------------------------- C4
\* C4 as stated: over the six candidate shapes (missing, plain method, static
\* method, class method, property, plain attribute), validation accepts only the
\* shape matching the required kind and rejects every other shape with the code
\* of the required kind; accepted candidates are registered, rejected ones not.
C4_Original ==
    (/\ Validated
     /\ SingleRequirement
     /\ ~OptsOut(Cand.skipload_)
     /\ ~Found.coro /\ Found.spec.annotations = "none"
     /\ Found.kind = Required.kind => SameParameters(Required.spec, Found.spec)) =>
        LET kind == RequiredKind(Required)
            shape == Shape(Required, Found)
            matching == CASE kind = "coroutine" -> FALSE
                          [] kind = "annotated" -> shape = "method"
                          [] OTHER -> shape = kind
        IN IF matching
           THEN last.errorcode = 0 /\ IsRegistered
           ELSE last.errorcode = KindCode(kind) /\ NotInRegistry

\* The code validation gives a candidate offering `found` for `required`
ExpectedCode(required, found) ==
    LET kind == RequiredKind(required)
        shape == Shape(required, found)
        same == SameParameters(required.spec, found.spec)
    IN CASE kind = "property" -> IF shape = "property" THEN 0 ELSE 210
         [] kind = "attribute" -> IF shape = "missing" THEN 214 ELSE 0
         [] kind \in {"static", "class"} ->
                IF shape # kind THEN KindCode(kind) ELSE IF same THEN 0 ELSE 220
         [] kind = "method" ->
                IF shape # "method" THEN 213 ELSE IF same THEN 0 ELSE 220
         [] kind = "coroutine" ->
                IF shape # "method" THEN 213
                ELSE IF ~same THEN 220
                ELSE IF found.coro THEN 0 ELSE 215
         [] kind = "annotated" ->
                IF shape # "method" THEN 213
                ELSE IF ~same THEN 220
                ELSE IF found.spec.annotations \in {"none", required.spec.annotations}
                     THEN 0 ELSE 216

\* C4 (amended): a required property, static method, class method or plain
\* method accepts only a candidate of the same shape and rejects every other
\* shape, a missing member included, with the code of the kind (210, 211, 212,
\* 213; 220 when the shape matches and the parameters differ).  A required
\* plain attribute rejects only a missing member (214) and accepts every shape
\* that is present.  A required coroutine method and a required annotated
\* method are checked as plain methods first (213 for a missing member and for
\* every shape that is no plain method); then a method that is no coroutine
\* gets 215, and a method whose own annotations are not empty and differ gets
\* 216.  An accepted candidate is registered and a rejected one is not.
C4_ValidationMatrix ==
    (Validated /\ SingleRequirement /\ ~OptsOut(Cand.skipload_)) =>
        /\ last.errorcode = ExpectedCode(Required, Found)
        /\ last.checked = 1
        /\ IF last.errorcode = 0 THEN IsRegistered ELSE NotInRegistry

\* A required plain attribute has just accepted a candidate that offers a method
C4_Witness ==
    /\ Validated
    /\ SingleRequirement
    /\ RequiredKind(Required) = "attribute"
    /\ Shape(Required, Found) = "method"
    /\ last.errorcode = 0
    /\ IsRegistered

\* ---------------------------------------------------------------- C5
\* C5: for a required plain method, static method or class method, a candidate
\* whose override has the matching kind and other formal parameters is rejected
\* with code 220 ('Argument spec does not match parent') and is not registered;
\* with the same formal parameters it is registered.
C5_ParameterShape ==
    (/\ Validated
     /\ SingleRequirement
     /\ ~OptsOut(Cand.skipload_)
     /\ RequiredKind(Required) \in {"method", "static", "class"}
     /\ Shape(Required, Found) = Required.kind) =>
        IF SameParameters(Required.spec, Found.spec)
        THEN last.errorcode = 0 /\ IsRegistered
        ELSE /\ last.errorcode = 220
             /\ last.message = "Argument spec does not match parent for method"
             /\ NotInRegistry

\* A static method with other parameters than the required static method has
\* just been rejected
C5_Witness ==
    /\ Validated
    /\ SingleRequirement
    /\ RequiredKind(Required) = "static"
    /\ Shape(Required, Found) = "static"
    /\ ~SameParameters(Required.spec, Found.spec)
    /\ last.errorcode = 220
    /\ NotInRegistry

\* ---------------------------------------------------------------- C6
\* C6: a candidate whose own never-load flag is true is rejected with code 50,
\* and one whose flag is a callable returning a true value, or a pair whose
\* first element is true, is rejected with code 156; both happen before any
\* required member is looked at, whether or not the candidate satisfies the
\* contract.  A false flag and a callable returning a false value (alone or
\* first in a pair) let the contract check run and decide.
C6_OptOutFirst ==
    Validated =>
        LET flag == last.ns.skipload_
        IN /\ flag = "True" =>
                /\ last.errorcode = 50
                /\ last.message = "Skipload flag is True"
                /\ last.checked = 0
                /\ NotInRegistry
           /\ flag \in {"call:True", "call:(True,msg)"} =>
                /\ last.errorcode = 156
                /\ last.message = (IF flag = "call:True" THEN None ELSE "msg")
                /\ last.checked = 0
                /\ NotInRegistry
           /\ (flag \in {"False", "call:False", "call:(False,msg)"} /\ SingleRequirement) =>
                /\ last.checked = 1
                /\ last.errorcode = ExpectedCode(Required, Found)
                /\ IF last.errorcode = 0 THEN IsRegistered ELSE NotInRegistry

\* A candidate that offers the required method and whose never-load flag is
\* true has just been rejected with code 50
C6_Witness ==
    /\ Validated
    /\ SingleRequirement
    /\ last.ns.skipload_ = "True"
    /\ ExpectedCode(Required, Found) = 0
    /\ last.errorcode = 50
    /\ last.checked = 0
    /\ NotInRegistry

\* ---------------------------------------------------------------- C7
\* C7: a rejection by validation raises nothing and returns the class, leaves
\* the registry as it was, and emits exactly one diagnostic, on the channel the
\* code selects: below 100 debug, from 100 below 200 info, from 200 on a
\* PluginWarning.
C7_RejectionReport ==
    [][last'.outcome = "rejected" =>
          /\ last'.raised = None
          /\ last'.cls = Len(classes) + 1
          /\ classes' = Append(classes, classes'[last'.cls])
          /\ plugins' = plugins
          /\ last'.errorcode # 0
          /\ Len(last'.diag) = 1
          /\ last'.diag[1].channel =
                (IF last'.errorcode < 100 THEN "debug"
                 ELSE IF last'.errorcode < 200 THEN "info"
                 ELSE "PluginWarning")]_vars

\* A candidate has just been rejected with a code of the middle band and
\* reported on the info channel
C7_Witness ==
    /\ last.outcome = "rejected"
    /\ last.errorcode = 156
    /\ Len(last.diag) = 1
    /\ last.diag[1].channel = "info"
    /\ NotInRegistry

\* ---------------------------------------------------------------- C8
\* C8: a registered implementation sits under its name at exactly one version
\* key: its explicit version when it has one, else the __version__ of its
\* module when the module has one, else "0".
C8_VersionKey ==
    (last.op = "class" /\ last.outcome = "registered") =>
        LET explicit == GetAttr(classes, Cand, "version")
            key == IF explicit \notin {None, Unset} THEN explicit
                   ELSE IF last.module_version # None THEN last.module_version
                   ELSE "0"
        IN {e \in Entries(plugins) : e[5] = last.cls} =
               {<<CandGroup, CandType, PluginName(classes, Cand), key, last.cls>>}

\* A class without an explicit version, in a module that has a __version__, has
\* just been registered under the module's version
C8_Witness ==
    /\ last.op = "class"
    /\ last.outcome = "registered"
    /\ GetAttr(classes, Cand, "version") \in {None, Unset}
    /\ last.module_version = "2.0.0"
    /\ \E e \in Entries(plugins) : e[4] = "2.0.0" /\ e[5] = last.cls

\* ---------------------------------------------------------------- C9
\* C9: the parent flag and the never-load flag are read from the class's own
\* body only.  A class whose body sets neither is never made a parent and never
\* opts out, whatever its bases set: it is validated against the contract, and
\* when it conforms and is no duplicate it is registered.
C9_FlagsNotInherited ==
    (last.op = "class" /\ last.ns.parent_ = Unset /\ last.ns.skipload_ = Unset) =>
        /\ last.outcome # "parent"
        /\ last.raised # "ValueError: parent must be unique"
        /\ last.errorcode \notin {50, 156}
        /\ last.cls # 0 => (Cand.parent_ = "False" /\ Cand.skipload_ = "False")
        /\ (last.outcome = "rejected" /\ SingleRequirement) =>
                ExpectedCode(Required, Found) # 0

\* A class whose body sets no flag and whose base is an implementation with a
\* true never-load flag has just been registered
C9_Witness ==
    /\ last.op = "class"
    /\ last.ns.skipload_ = Unset
    /\ last.ns.base # 0
    /\ classes[last.ns.base].skipload_ = "True"
    /\ last.outcome = "registered"
    /\ IsRegistered

\* ---------------------------------------------------------------- C10
\* C10: decorating as a parent a class that is registered as an implementation
\* removes from its type container exactly the entries under the class's name
\* whose value is that class.  Entries under that name for other classes and
\* all other names stay, and the name leaves the container only when none of
\* its entries remain.  This cleanup comes before the new parent is declared.
C10_DecorateRemovesOwnEntries ==
    [][(/\ last'.op = "Parent"
        /\ last'.target # 0
        /\ \E e \in Entries(plugins) : e[5] = last'.target) =>
          LET c == last'.target
              rec == classes[c]
              g == GroupKey(classes, rec)
              t == GetAttr(classes, rec, "type")
              n == PluginName(classes, rec)
              old == Versions(plugins, g, t, n)
              own == {v \in DOMAIN old : old[v] = c}
          IN /\ own # {}
             /\ last'.removed = own
             /\ Entries(plugins') = {e \in Entries(plugins) : e[5] # c}
             /\ HasType(plugins', g, t)
             /\ plugins'[g][t]._parent = plugins[g][t]._parent
             /\ DOMAIN plugins'[g][t].names \ {n} = DOMAIN plugins[g][t].names \ {n}
             /\ (n \in DOMAIN plugins'[g][t].names) = (own # DOMAIN old)]_vars

\* A class registered next to another version of its name has just been
\* decorated as a parent: its entry is gone and the other version is still there
C10_Witness ==
    /\ last.op = "Parent"
    /\ last.target # 0
    /\ last.removed # {}
    /\ \E e \in Entries(plugins) :
          /\ e[3] = PluginName(classes, classes[last.target])
          /\ e[5] # last.target
    /\ \A e \in Entries(plugins) : e[5] # last.target

\* ================================================================ containers
\* ---------------------------------------------------------------- versions
\* The release numbers of the version strings the programs use
Release(v) ==
    CASE v = "0" -> <<0>>
      [] v = "1.0" -> <<1, 0>>
      [] v = "1.0.0" -> <<1, 0, 0>>
      [] v = "1.0.1" -> <<1, 0, 1>>
      [] v = "2.0" -> <<2, 0>>
      [] v = "2.0.0" -> <<2, 0, 0>>
      [] v = "3.0" -> <<3, 0>>
      [] v = "4.0" -> <<4, 0>>

\* A release without its trailing zeros
RECURSIVE StripZeros(_)
StripZeros(release) ==
    IF release # <<>> /\ release[Len(release)] = 0
    THEN StripZeros(SubSeq(release, 1, Len(release) - 1))
    ELSE release

\* pkg_resources.parse_version: the key two version strings are compared by
parse_version(v) == StripZeros(Release(v))

\* Order of the keys of parse_version: component by component, a proper prefix first
VersionLess(a, b) ==
    \E i \in 1..Len(b) :
        /\ \A j \in 1..(i - 1) : j <= Len(a) /\ a[j] = b[j]
        /\ (i > Len(a) \/ a[i] < b[i])

OperatorSymbols == {"=", "==", "!=", "<", "<=", ">", ">="}

\* OPERATORS[op](a, b) on keys of parse_version
OPERATORS(op, a, b) ==
    CASE op \in {"=", "=="} -> a = b
      [] op = "!=" -> a # b
      [] op = "<" -> VersionLess(a, b)
      [] op = "<=" -> VersionLess(a, b) \/ a = b
      [] op = ">" -> VersionLess(b, a)
      [] op = ">=" -> VersionLess(b, a) \/ a = b

\* ---------------------------------------------------------------- BlacklistEntry
\* Values that are no strings
NonStrings == {"float:1.0"}

Entry(type, name, version, operator) ==
    [type |-> type, name |-> name, version |-> version, operator |-> operator]

Constructed(raised, entry) == [raised |-> raised, entry |-> entry]

NoEntry == Entry(None, None, None, None)

\* Variant: an entry that names nothing is accepted
BlacklistEntryAny(plugin_type, name, version, operator) ==
    LET swapped == version \in OperatorSymbols
        v == IF swapped THEN operator ELSE version
        o == IF swapped THEN version ELSE operator
    IN Constructed(None, Entry(plugin_type, name, v, IF o = None THEN "==" ELSE o))

\* Variant: the third value is the version and the fourth the operator, always
BlacklistEntryInOrder(plugin_type, name, version, operator) ==
    Constructed(None, Entry(plugin_type, name, version,
                            IF operator = None THEN "==" ELSE operator))

\* BlacklistEntry(plugin_type, name, version, operator): the entry made or the
\* exception raised
BlacklistEntry(plugin_type, name, version, operator) ==
    LET swapped == version \in OperatorSymbols
        v == IF swapped THEN operator ELSE version
        o == IF swapped THEN version ELSE operator
    IN IF plugin_type = None /\ name = None /\ version = None
       THEN Constructed("AttributeError: plugin_type, name, or version must be specified",
                        NoEntry)
       ELSE IF swapped /\ v = None
       THEN Constructed("AttributeError: version must be specifed when operator is specified",
                        NoEntry)
       ELSE IF v # None /\ v \in NonStrings
       THEN Constructed("TypeError: version must be a string", NoEntry)
       ELSE IF o # None /\ o \notin OperatorSymbols
       THEN Constructed("AttributeError: Unsupported operator", NoEntry)
       ELSE Constructed(None, Entry(plugin_type, name, v, IF o = None THEN "==" ELSE o))

\* ---------------------------------------------------------------- PluginDict
\* The values _filter returns: None, a class, an OrderedDict of (version, class)
\* pairs in order, or a dict
NoneValue == [kind |-> "None"]
Class(c) == [kind |-> "class", cls |-> c]
OrderedDict(items) == [kind |-> "OrderedDict", items |-> items]
Dict(items) == [kind |-> "dict", items |-> items]

Filtered(rtn, cache) == [rtn |-> rtn, cache |-> cache]

\* sorted(self.keys(), key=parse_version): the sort is stable and the keys of a
\* dict come in insertion order, which is the order the classes were created in
RECURSIVE SortedFrom(_, _)
SortedFrom(self, keys) ==
    IF keys = {} THEN <<>>
    ELSE LET first == CHOOSE k \in keys : \A o \in keys \ {k} :
                            \/ VersionLess(parse_version(k), parse_version(o))
                            \/ parse_version(k) = parse_version(o) /\ self[k] < self[o]
         IN <<first>> \o SortedFrom(self, keys \ {first})

WithSortedKeys(keys, cache) == Filtered(keys, DictSet(cache, "sorted_keys", keys))

\* PluginDict._sorted_keys: the keys in version order, from the cache when it has them
_sorted_keys(self, cache) ==
    IF "sorted_keys" \in DOMAIN cache
    THEN Filtered(cache["sorted_keys"], cache)
    ELSE WithSortedKeys(SortedFrom(self, DOMAIN self), cache)

\* The keys of self an entry excludes: blackop(parse_version(key), blackversion)
Blacked(self, entry) ==
    {key \in DOMAIN self :
        OPERATORS(entry.operator, parse_version(key),
                  parse_version(IF entry.version \in {None, ""} THEN "0" ELSE entry.version))}

\* The loop of _process_blacklist from entry i on: blacklist_cache
RECURSIVE ProcessFrom(_, _, _, _, _)
ProcessFrom(self, blacklist_cache_old, blacklist, i, blacklist_cache) ==
    IF i > Len(blacklist) THEN blacklist_cache
    ELSE LET entry == blacklist[i]
             blackkey == <<entry.version, entry.operator>>
         IN ProcessFrom(self, blacklist_cache_old, blacklist, i + 1,
                CASE blackkey \in DOMAIN blacklist_cache -> blacklist_cache
                  [] blackkey \notin DOMAIN blacklist_cache
                        /\ blackkey \in DOMAIN blacklist_cache_old ->
                        DictSet(blacklist_cache, blackkey, blacklist_cache_old[blackkey])
                  [] OTHER -> DictSet(blacklist_cache, blackkey, Blacked(self, entry)))

Processed(blacklist_cache, cache) ==
    [excluded |-> UNION {blacklist_cache[k] : k \in DOMAIN blacklist_cache},
     cache |-> DictSet(cache, "blacklist", blacklist_cache)]

\* PluginDict._process_blacklist: the set of excluded keys, and the cache it leaves
_process_blacklist(self, cache, blacklist) ==
    Processed(ProcessFrom(self,
                          IF "blacklist" \in DOMAIN cache THEN cache["blacklist"] ELSE EmptyDict,
                          blacklist, 1, EmptyDict),
              cache)

\* Variant: the oldest key that is not excluded
Oldest(sorted, excluded) ==
    LET left == {i \in 1..Len(sorted) : sorted[i] \notin excluded}
    IN IF left = {} THEN 0 ELSE CHOOSE i \in left : \A j \in left : i <= j

\* The newest key of sorted that is not excluded, 0 when there is none
Newest(sorted, excluded) ==
    LET left == {i \in 1..Len(sorted) : sorted[i] \notin excluded}
    IN IF left = {} THEN 0 ELSE CHOOSE i \in left : \A j \in left : j <= i

\* The keys of sorted that are not excluded, in order
RECURSIVE Kept(_, _, _)
Kept(self, sorted, excluded) ==
    IF sorted = <<>> THEN <<>>
    ELSE (IF Head(sorted) \in excluded THEN <<>> ELSE << <<Head(sorted), self[Head(sorted)]>> >>)
            \o Kept(self, Tail(sorted), excluded)

\* self.get(version, None) unless the version is excluded
Exact(self, version, excluded) ==
    IF version \in DOMAIN self /\ version \notin excluded
    THEN Class(self[version]) ELSE NoneValue

NewestOf(self, keys, excluded) ==
    Filtered(IF Newest(keys.rtn, excluded) = 0 THEN NoneValue
             ELSE Class(self[keys.rtn[Newest(keys.rtn, excluded)]]),
             keys.cache)

\* Variant: None when no key is left
AllOfOrNone(self, keys, excluded) ==
    Filtered(IF Kept(self, keys.rtn, excluded) = <<>> THEN NoneValue
             ELSE OrderedDict(Kept(self, keys.rtn, excluded)),
             keys.cache)

AllOf(self, keys, excluded) ==
    Filtered(OrderedDict(Kept(self, keys.rtn, excluded)), keys.cache)

\* The selection of PluginDict._filter once the excluded keys are known
Select(self, cache, excluded, newest_only, version) ==
    IF version \notin {None, ""} THEN Filtered(Exact(self, version, excluded), cache)
    ELSE IF newest_only THEN NewestOf(self, _sorted_keys(self, cache), excluded)
    ELSE AllOf(self, _sorted_keys(self, cache), excluded)

SelectAfter(self, processed, newest_only, version) ==
    Select(self, processed.cache, processed.excluded, newest_only, version)

\* PluginDict._filter(blacklist, newest_only, version=version): the value
\* returned and the cache left behind
PluginDict_filter(self, cache, blacklist, newest_only, version) ==
    IF self = EmptyDict THEN Filtered(NoneValue, cache)
    ELSE IF blacklist # <<>>
    THEN SelectAfter(self, _process_blacklist(self, cache, blacklist), newest_only, version)
    ELSE Select(self, cache, {}, newest_only, version)

\* The cache of the version container at key, empty when it has none
CacheOf(cache, key) == IF key \in DOMAIN cache THEN cache[key] ELSE EmptyDict

\* caches with the cache of key replaced
CacheSet(cache, key, new) ==
    IF new = EmptyDict THEN [k \in (DOMAIN cache) \ {key} |-> cache[k]]
    ELSE DictSet(cache, key, new)

\* ---------------------------------------------------------------- GroupDict, TypeDict
\* GroupDict._items(type_filter, name) over the keys of self; a TypeDict is
\* never given a type filter
_items(keys, type_filter, name) ==
    IF name \notin {None, ""}
    THEN (IF type_filter # {} THEN {name} \cap type_filter ELSE {name}) \cap keys
    ELSE IF type_filter # {} THEN keys \cap type_filter
    ELSE keys

\* Variant: only the last entry the loop looks at for key is kept
RelevantLast(blacklist, _key_attr, key) ==
    LET all == SelectSeq(blacklist, LAMBDA entry : entry[_key_attr] \in {key, None})
    IN IF all = <<>> THEN <<>> ELSE <<all[Len(all)]>>

\* The entries the loop of _filter looks at for key: getattr(entry, _key_attr) in (key, None)
Relevant(blacklist, _key_attr, key) ==
    SelectSeq(blacklist, LAMBDA entry : entry[_key_attr] \in {key, None})

\* The loop of _filter sets skip: an entry it looks at has None for every
\* attribute of _bl_skip_attrs
Skip(blacklist, _key_attr, _bl_skip_attrs, key) ==
    \E i \in 1..Len(blacklist) :
        /\ blacklist[i][_key_attr] \in {key, None}
        /\ \A attr \in _bl_skip_attrs : blacklist[i][attr] = None

\* "if result": a class, or a mapping that is not empty
Result(result) ==
    \/ result.kind = "class"
    \/ result.kind = "OrderedDict" /\ result.items # <<>>
    \/ result.kind = "dict" /\ result.items # EmptyDict

\* val._filter(plugin_blacklist, newest_only=newest_only, **kwargs) for the
\* version container val at name in a TypeDict
NameFiltered(names, at, name, cache, blacklist, newest_only, kwargs) ==
    PluginDict_filter(names[name], CacheOf(cache, <<at[1], at[2], name>>),
                      Relevant(blacklist, "name", name), newest_only, kwargs.version)

\* The names of a TypeDict whose version container _filter asks
NamesAsked(names, blacklist, kwargs) ==
    {name \in _items(DOMAIN names, {}, kwargs.name) : ~Skip(blacklist, "name", {"version"}, name)}

\* Variant: a name whose versions are all excluded stays, with an empty value
TypeDict_filter_keep_empty(names, at, cache, blacklist, newest_only, kwargs) ==
    IF kwargs.name \notin {None, ""}
    THEN IF kwargs.name \in NamesAsked(names, blacklist, kwargs)
         THEN NameFiltered(names, at, kwargs.name, cache, blacklist, newest_only, kwargs).rtn
         ELSE NoneValue
    ELSE Dict([name \in NamesAsked(names, blacklist, kwargs) |->
                    NameFiltered(names, at, name, cache, blacklist, newest_only, kwargs).rtn])

\* TypeDict._filter(blacklist, newest_only, **kwargs) of the type container at
\* <<group, type>>: the value returned
TypeDict_filter(names, at, cache, blacklist, newest_only, kwargs) ==
    IF kwargs.name \notin {None, ""}
    THEN IF /\ kwargs.name \in NamesAsked(names, blacklist, kwargs)
            /\ Result(NameFiltered(names, at, kwargs.name, cache, blacklist,
                                   newest_only, kwargs).rtn)
         THEN NameFiltered(names, at, kwargs.name, cache, blacklist, newest_only, kwargs).rtn
         ELSE NoneValue
    ELSE Dict([name \in {n \in NamesAsked(names, blacklist, kwargs) :
                            Result(NameFiltered(names, at, n, cache, blacklist,
                                                newest_only, kwargs).rtn)} |->
                    NameFiltered(names, at, name, cache, blacklist, newest_only, kwargs).rtn])

\* The types of a GroupDict whose type container _filter asks
TypesAsked(group, blacklist, type_filter, kwargs) ==
    {type \in _items(DOMAIN group, type_filter, kwargs.type) :
        ~Skip(blacklist, "type", {"name", "version"}, type)}

\* Variant: the type filter is not applied
GroupDict_filter_unfiltered(group, g, cache, blacklist, newest_only, type_filter, kwargs) ==
    IF kwargs.type \notin {None, ""}
    THEN IF kwargs.type \in TypesAsked(group, blacklist, {}, kwargs)
         THEN TypeDict_filter(group[kwargs.type].names, <<g, kwargs.type>>, cache,
                              Relevant(blacklist, "type", kwargs.type), newest_only, kwargs)
         ELSE NoneValue
    ELSE Dict([type \in _items(DOMAIN group, {}, kwargs.type) |->
                 IF type \in TypesAsked(group, blacklist, {}, kwargs)
                 THEN TypeDict_filter(group[type].names, <<g, type>>, cache,
                                      Relevant(blacklist, "type", type), newest_only, kwargs)
                 ELSE Dict(EmptyDict)])

\* GroupDict._filter(blacklist, newest_only, type_filter, **kwargs) of the
\* container of group g: the value returned
GroupDict_filter(group, g, cache, blacklist, newest_only, type_filter, kwargs) ==
    IF kwargs.type \notin {None, ""}
    THEN IF kwargs.type \in TypesAsked(group, blacklist, type_filter, kwargs)
         THEN TypeDict_filter(group[kwargs.type].names, <<g, kwargs.type>>, cache,
                              Relevant(blacklist, "type", kwargs.type), newest_only, kwargs)
         ELSE NoneValue
    ELSE Dict([type \in _items(DOMAIN group, type_filter, kwargs.type) |->
                 IF type \in TypesAsked(group, blacklist, type_filter, kwargs)
                 THEN TypeDict_filter(group[type].names, <<g, type>>, cache,
                                      Relevant(blacklist, "type", type), newest_only, kwargs)
                 ELSE Dict(EmptyDict)])

\* The version containers GroupDict._filter asks: <<group, type, name>>
ContainersAsked(group, g, blacklist, type_filter, kwargs) ==
    UNION {{<<g, type, name>> :
                name \in NamesAsked(group[type].names, Relevant(blacklist, "type", type), kwargs)} :
            type \in TypesAsked(group, blacklist, type_filter, kwargs)}

\* The caches GroupDict._filter leaves: each version container it asks keeps
\* the cache its own _filter leaves
CachesAfter(group, g, cache, blacklist, newest_only, type_filter, kwargs) ==
    [key \in (DOMAIN cache) \cup
                {k \in ContainersAsked(group, g, blacklist, type_filter, kwargs) :
                    NameFiltered(group[k[2]].names, k, k[3], cache,
                                 Relevant(blacklist, "type", k[2]), newest_only, kwargs).cache
                        # EmptyDict} |->
        IF key \in ContainersAsked(group, g, blacklist, type_filter, kwargs)
        THEN NameFiltered(group[key[2]].names, key, key[3], cache,
                          Relevant(blacklist, "type", key[2]), newest_only, kwargs).cache
        ELSE cache[key]]

\* ================================================================ filtering
\* The applications that define versions of one implementation, one class
\* statement each, and ask the version container for them
FilterPrograms == {"equal", "unequal", "older", "newer", "between", "outside"}

\* The arguments of the blacklist entries each application builds
EntryArgs(p) ==
    CASE p = "equal" -> {<<None, None, "1.0.0", "=">>, <<None, None, "3.0", "==">>}
      [] p = "unequal" -> {<<None, None, "2.0", "!=">>, <<None, None, "2.0", None>>}
      [] p = "older" -> {<<None, None, "<", "2.0">>, <<None, None, "3.0", "<=">>}
      [] p = "newer" -> {<<None, None, "2.0", ">">>, <<None, None, ">=", "2.0">>}
      [] p = "between" -> {<<None, None, "3.0", "<">>, <<None, None, "1.0", ">">>}
      [] p = "outside" -> {<<None, None, "1.0", "<=">>, <<None, None, "3.0", ">=">>}
      [] p = "spellings" -> {<<None, None, "1.0.0", "==">>, <<None, None, "1.0", None>>}

\* The entries BlacklistEntry makes of them
BlacklistEntries(p) ==
    {BlacklistEntry(a[1], a[2], a[3], a[4]).entry :
        a \in {b \in EntryArgs(p) : BlacklistEntry(b[1], b[2], b[3], b[4]).raised = None}}

\* The blacklists: lists of entries
Blacklists(p) == UNION {[1..n -> BlacklistEntries(p)] : n \in 0..MaxEntries}

\* The version selectors the application uses
Selectors(p) == {None, "2.0"}

\* The record of a query: what was asked (query), the value returned (result)
\* and the exception raised
Asked(op, query, result, raised) ==
    [Last(op, 0, {}, NoNamespace, None, 0, NoOutcome(raised, "none"))
        EXCEPT !.query = query, !.result = result]

Answer(op, query, key, filtered) ==
    /\ last' = Asked(op, query, filtered.rtn, None)
    /\ caches' = CacheSet(caches, key, filtered.cache)
    /\ UNCHANGED <<plugins, classes, program, loader, sys_modules, threads>>

\* get_plugins()[g][t][n]._filter(blacklist, newest_only=newest_only, version=version)
FilterVersions(g, t, n, blacklist, newest_only, version) ==
    /\ Versions(plugins, g, t, n) # EmptyDict
    /\ Answer("PluginDict._filter",
              [group |-> g, type |-> t, name |-> n, blacklist |-> blacklist,
               newest_only |-> newest_only, version |-> version],
              <<g, t, n>>,
              PluginDict_filter(plugins[g][t].names[n], CacheOf(caches, <<g, t, n>>),
                                blacklist, newest_only, version))

\* The names the registry holds, with their group and type
NameKeys(reg) == {<<e[1], e[2], e[3]>> : e \in Entries(reg)}

\* The classes that declare an extension point
ExtensionPoints == {c \in 1..Len(classes) : classes[c].parent_ = "True"}

InitFilter == program \in FilterPrograms /\ Started

NextFilter ==
    \/ \E base \in ExtensionPoints, body \in Bodies(program),
          module_version \in ModuleVersions(program) :
            DefineClass(base, body, module_version)
    \/ \E body \in PlainClasses(program), args \in ParentArgs(program) :
            DecoratePlain(body, args)
    \/ \E key \in NameKeys(plugins), blacklist \in Blacklists(program),
          newest_only \in BOOLEAN, version \in Selectors(program) :
            FilterVersions(key[1], key[2], key[3], blacklist, newest_only, version)

SpecFilter == InitFilter /\ [][NextFilter]_vars

\* ================================================================ loader
\* ---------------------------------------------------------------- what can be imported
\* A statement of a module: "class <body.name>(<base>)", or for base None
\* "@Parent(args.plugin_type, args.group) class <body.name>(object)"
Statement(base, body, args) == [base |-> base, body |-> body, args |-> args]

\* A module: the modules it imports, its statements, whether it raises after
\* them, and for a package the modules pkgutil.walk_packages finds in it
Module(requires, statements, raises, submodules) ==
    [requires |-> requires, statements |-> statements, raises |-> raises,
     submodules |-> submodules]

Child(base, name, alias, version) ==
    Statement(base, Body(name, alias, version, Unset, Only(MethSelf)), None)

ModuleNames ==
    {"parents", "lib", "lib.engines.steam", "lib.hooks.right", "lib.parsers.json",
     "lib.parsers.xml", "addon", "bad2", "plug", "plug.broken"}

\* The modules of tests/testdata, and those an entry point can bring
TestData(name) ==
    CASE name = "parents" ->
            Module(<<>>,
                   <<Statement(None, Body("Parser", Unset, Unset, Unset, Only(Abstract(MethSelf))),
                               [plugin_type |-> "parser", group |-> "testdata"]),
                     Statement(None, Body("Engine", Unset, Unset, Unset, Only(Abstract(MethSelf))),
                               [plugin_type |-> "engine", group |-> "testdata"]),
                     Statement(None, Body("Hook", Unset, Unset, Unset, NoMembers),
                               [plugin_type |-> "hook", group |-> "testdata"])>>,
                   FALSE, <<>>)
      [] name = "lib" ->
            Module(<<>>, <<>>, FALSE,
                   <<"lib.engines.steam", "lib.hooks.right", "lib.parsers.json",
                     "lib.parsers.xml">>)
      [] name = "lib.engines.steam" ->
            Module(<<"parents">>, <<Child("Engine", "Steam", "steam", Unset)>>, FALSE, <<>>)
      [] name = "lib.hooks.right" ->
            Module(<<"parents">>, <<Child("Hook", "Right", "right", Unset)>>, FALSE, <<>>)
      [] name = "lib.parsers.json" ->
            Module(<<"parents">>, <<Child("Parser", "JSON", "json", "1.0"),
                                    Child("Parser", "JSON2", "json", "2.0")>>, FALSE, <<>>)
      [] name = "lib.parsers.xml" ->
            Module(<<"parents">>, <<Child("Parser", "XML", "xml", Unset)>>, FALSE, <<>>)
      [] name = "addon" ->
            Module(<<"parents">>, <<Child("Parser", "JSON3", "json", "2.0")>>, FALSE, <<>>)
      [] name = "bad2" ->
            Module(<<"parents">>, <<Child("Engine", "Electric", "electric", Unset)>>,
                   TRUE, <<>>)
      [] name = "plug" -> Module(<<>>, <<>>, FALSE, <<"plug.broken">>)
      [] name = "plug.broken" -> Module(<<>>, <<>>, TRUE, <<>>)

\* os.path.isdir(path) and the modules the walk of the directory finds
Directory(path) ==
    IF path = "lib/engines"
    THEN [isdir |-> TRUE, files |-> <<"lib.engines.steam">>]
    ELSE [isdir |-> FALSE, files |-> <<>>]

EntryPoint(name, module_name, attrs) ==
    [name |-> name, module_name |-> module_name, attrs |-> attrs]

\* iter_entry_points(group=group): the entries the installed distributions publish
iter_entry_points(group) ==
    CASE group = "pluginlib.test.plugins" ->
            <<EntryPoint("bad", "not.a.real.module", None),
              EntryPoint("parsers", "lib.parsers.xml", None),
              EntryPoint("xml", "lib.parsers.xml", "XML")>>
      [] group = "pluginlib.test.addon" -> <<EntryPoint("addon", "addon", None)>>
      [] group = "pluginlib.test.packages" ->
            <<EntryPoint("plug", "plug", None), EntryPoint("parsers", "lib.parsers.xml", None)>>
      [] OTHER -> <<>>

\* ---------------------------------------------------------------- importing
\* The process while modules are imported: the registry, the classes, the
\* caches and sys.modules, the calls of _import_module made (log), the
\* diagnostics emitted and the exception that is propagating
Importing(reg, cs, cache, modules) ==
    [plugins |-> reg, classes |-> cs, caches |-> cache, sys_modules |-> modules,
     log |-> <<>>, diag |-> <<>>, raised |-> None]

\* The class statement has run and PluginType.__new__ gave r
Executed(st, r) ==
    [st EXCEPT !.plugins = r.plugins,
               !.classes = IF r.raised = None THEN Append(@, r.rec) ELSE @,
               !.caches = Invalidate(@, st.plugins, r.plugins),
               !.diag = @ \o r.diag,
               !.raised = r.raised]

\* The extension-point class a module finds under a name it imported from "parents"
ClassNamed(cs, name) ==
    CHOOSE c \in 1..Len(cs) :
        /\ cs[c].name = name /\ cs[c].parent_ = "True"
        /\ \A o \in (c + 1)..Len(cs) : ~(cs[o].name = name /\ cs[o].parent_ = "True")

\* One statement of a module runs
Exec(st, statement) ==
    Executed(st,
        PluginTypeNew(st.plugins, st.classes,
            IF statement.base = None
            THEN ParentNamespace(Namespace(statement.body, 0, Len(st.classes) + 1),
                                 statement.args.plugin_type, statement.args.group)
            ELSE Namespace(statement.body, ClassNamed(st.classes, statement.base),
                           Len(st.classes) + 1),
            Len(st.classes) + 1, None))

\* The statements run one after the other from statement i on, until one raises
RECURSIVE ExecFrom(_, _, _)
ExecFrom(st, statements, i) ==
    IF i > Len(statements) \/ st.raised # None THEN st
    ELSE ExecFrom(Exec(st, statements[i]), statements, i + 1)

\* The modules a module imports that have not run yet; they import nothing themselves
Missing(modules, name) == SelectSeq(TestData(name).requires, LAMBDA m : m \notin modules)

\* The statements that run when module name runs: those of the modules it
\* imports that have not run yet, then its own
RECURSIVE Statements(_, _)
Statements(names, i) ==
    IF i > Len(names) THEN <<>>
    ELSE TestData(names[i]).statements \o Statements(names, i + 1)

\* The statements of module name have run: the modules it imports are in
\* sys.modules; it raises, or is complete and, when imported, in sys.modules too
Ran(st, name, missing, cached) ==
    IF st.raised # None THEN st
    ELSE IF TestData(name).raises
    THEN [st EXCEPT !.sys_modules = @ \cup missing, !.raised = "RuntimeError"]
    ELSE [st EXCEPT !.sys_modules = @ \cup missing \cup (IF cached THEN {name} ELSE {})]

\* importlib.import_module(name): a module in sys.modules is not run again, a
\* module that raises is not put there. With run_again,
\* spec.loader.exec_module(module) of _recursive_path_import: the file runs
\* whether or not it ran before, and is not put into sys.modules
import_module(st, name, run_again) ==
    IF ~run_again /\ name \in st.sys_modules THEN st
    ELSE IF name \notin ModuleNames THEN [st EXCEPT !.raised = "ModuleNotFoundError"]
    ELSE Ran(ExecFrom(st, Statements(Append(Missing(st.sys_modules, name), name), 1), 1),
             name,
             {TestData(name).requires[k] : k \in DOMAIN TestData(name).requires},
             ~run_again)

\* _raise_friendly_exception: what a module raised leaves as PluginImportError
Called(st, source, name) ==
    [st EXCEPT !.log = Append(@, <<source, name>>),
               !.raised = IF @ = None THEN None ELSE "PluginImportError"]

\* _import_module(name) called for a source of the loader, and the import of
\* _recursive_path_import for the source "paths"
_import_module(st, source, name) ==
    Called(import_module(st, name, source = "paths"), source, name)

\* _recursive_import and _recursive_path_import: the modules found are
\* imported one after the other from module i on, until one raises
RECURSIVE _recursive_import(_, _, _, _)
_recursive_import(st, source, names, i) ==
    IF i > Len(names) \/ st.raised # None THEN st
    ELSE _recursive_import(_import_module(st, source, names[i]), source, names, i + 1)

Warned(st, diag) == [st EXCEPT !.diag = Append(@, diag), !.raised = None]

\* One turn of a loop of load_modules: the source, the module imported first
\* and those found in it (for a path the files found), the attribute an entry
\* point names, whether a path is a directory
Turn(source, names, attrs, isdir) ==
    [source |-> source, names |-> names, attrs |-> attrs, isdir |-> isdir]

Package(source, name) ==
    Turn(source, <<name>> \o (IF name \in ModuleNames THEN TestData(name).submodules ELSE <<>>),
         None, TRUE)

\* Variant: the paths are imported before the modules
TurnsPathsFirst(self) ==
    (IF self.library = None THEN <<>> ELSE <<Package("library", self.library)>>)
    \o (IF self.entry_point = None THEN <<>>
        ELSE [k \in DOMAIN iter_entry_points(self.entry_point) |->
                [Package("entry_point", iter_entry_points(self.entry_point)[k].module_name)
                    EXCEPT !.attrs = iter_entry_points(self.entry_point)[k].attrs]])
    \o [k \in DOMAIN self.paths |->
            Turn("paths", Directory(self.paths[k]).files, None, Directory(self.paths[k]).isdir)]
    \o [k \in DOMAIN self.modules |-> Package("modules", self.modules[k])]

\* The turns of load_modules in the order of its code
Turns(self) ==
    (IF self.library = None THEN <<>> ELSE <<Package("library", self.library)>>)
    \o (IF self.entry_point = None THEN <<>>
        ELSE [k \in DOMAIN iter_entry_points(self.entry_point) |->
                [Package("entry_point", iter_entry_points(self.entry_point)[k].module_name)
                    EXCEPT !.attrs = iter_entry_points(self.entry_point)[k].attrs]])
    \o [k \in DOMAIN self.modules |-> Package("modules", self.modules[k])]
    \o [k \in DOMAIN self.paths |->
            Turn("paths", Directory(self.paths[k]).files, None, Directory(self.paths[k]).isdir)]

\* The rest of a turn after its first import left first: for an entry point
\* PluginImportError is caught and warned about, and what is not a module is
\* warned about; otherwise the modules found are imported
Walked(first, turn) ==
    IF first.raised # None
    THEN IF turn.source = "entry_point"
         THEN Warned(first, Diag("EntryPointWarning", "can not be loaded for entry point"))
         ELSE first
    ELSE IF turn.attrs # None
    THEN Warned(first, Diag("EntryPointWarning", "is not a module or package"))
    ELSE _recursive_import(first, turn.source, turn.names, 2)

\* One turn of a loop of load_modules
Turned(st, turn) ==
    IF ~turn.isdir THEN Warned(st, Diag("info", "is not a valid directory"))
    ELSE IF turn.names = <<>> THEN st
    ELSE Walked(_import_module(st, turn.source, turn.names[1]), turn)

\* PluginLoader.load_modules up to "self.loaded = True": the turns from turn i
\* on, until an exception propagates
RECURSIVE load_modules(_, _, _)
load_modules(st, turns, i) ==
    IF i > Len(turns) \/ st.raised # None THEN st
    ELSE load_modules(Turned(st, turns[i]), turns, i + 1)

\* ---------------------------------------------------------------- PluginLoader
\* The bound on the classes that exist when a discovery pass starts
MaxLoaded == 10

\* The applications that construct a loader and use it
LoaderPrograms ==
    {"library", "blacklist", "type_filter", "entry_point", "packages", "modules",
     "paths", "sources", "group", "entries"}

\* The keyword arguments of PluginLoader(...); a blacklist is a list of tuples
\* of arguments for BlacklistEntry, None standing for an argument left out;
\* the versions the applications write conform to PEP 440
Arguments(group, library, modules, paths, entry_point, blacklist, type_filter) ==
    [group |-> group, library |-> library, modules |-> modules, paths |-> paths,
     entry_point |-> entry_point, blacklist |-> blacklist, type_filter |-> type_filter]

LoaderArguments(p) ==
    CASE p = "library" -> {Arguments("testdata", "lib", <<>>, <<>>, None, <<>>, {})}
      [] p = "blacklist" ->
            {Arguments("testdata", None,
                       <<"lib.engines.steam", "lib.parsers.json", "lib.parsers.xml">>,
                       <<>>, None, blacklist, {}) :
                blacklist \in {<<<<"parser", "json", "2.0", None>>,
                                 <<"parser", "xml", None, None>>,
                                 <<"engine", None, None, None>>>>,
                               <<<<None, "json", ">=", "1.0">>>>,
                               <<<<None, None, "<", "2.0">>>>}}
      [] p = "type_filter" ->
            {Arguments("testdata", "lib", <<>>, <<>>, None, a[1], a[2]) :
                a \in {<<<<>>, {"engine", "hook"}>>,
                       <<<<<<"parser", None, None, None>>>>, {"parser", "engine"}>>,
                       <<<<>>, {"penguin"}>>}}
      [] p = "entry_point" ->
            {Arguments("testdata", None, <<>>, <<"lib/engines">>, "pluginlib.test.plugins",
                       <<>>, {})}
      [] p = "packages" ->
            {Arguments("testdata", None, <<"lib.parsers.json">>, <<>>,
                       "pluginlib.test.packages", <<>>, {})}
      [] p = "modules" ->
            {Arguments("testdata", None, modules, <<>>, None, <<>>, {}) :
                modules \in {<<"lib.parsers.json", "bad2">>, <<"lib">>}}
      [] p = "paths" ->
            {Arguments("testdata", None, <<>>, paths, None, <<>>, {}) :
                paths \in {<<"nowhere", "lib/engines">>, <<"lib/engines", "lib/engines">>}}
      [] p = "sources" ->
            {Arguments("testdata", "lib", <<"lib.parsers.xml">>, <<"lib/engines">>,
                       "pluginlib.test.addon", <<>>, {})}
      [] p = "group" ->
            {Arguments(group, "lib", <<>>, <<>>, None, <<>>, type_filter) :
                group \in {None, "nosuch"}, type_filter \in {{}, {"engine"}}}
      [] p = "entries" ->
            {Arguments("testdata", "lib", <<>>, <<>>, None, <<a>>, {}) :
                a \in {b \in {None, "parser", ""} \X {None, "json"}
                                \X {None, "1.0", ">=", "float:1.0"}
                                \X {None, ">=", "1.0", "%"} :
                            ~(b[3] = ">=" /\ b[4] \in {">=", "%"})}}

\* The modules the application itself imports
Imports(p) == IF p \in {"library", "sources"} THEN {"parents", "addon"} ELSE {"parents"}

\* The loop of __init__ over the blacklist from entry i on: the entries made
\* so far, or the exception of the first tuple BlacklistEntry refuses
RECURSIVE EntriesFrom(_, _, _)
EntriesFrom(blacklist, i, made) ==
    IF i > Len(blacklist) THEN Constructed(None, made)
    ELSE IF BlacklistEntry(blacklist[i][1], blacklist[i][2], blacklist[i][3],
                           blacklist[i][4]).raised # None
    THEN Constructed("AttributeError: Invalid blacklist entry", <<>>)
    ELSE EntriesFrom(blacklist, i + 1,
                     Append(made, BlacklistEntry(blacklist[i][1], blacklist[i][2],
                                                 blacklist[i][3], blacklist[i][4]).entry))

\* Variant: a loader that reads the group of the test data whatever group it
\* was given
PluginLoaderOneGroup(args, blacklist) ==
    [constructed |-> TRUE, group |-> "testdata",
     library |-> args.library, modules |-> args.modules, paths |-> args.paths,
     entry_point |-> args.entry_point, blacklist |-> blacklist,
     type_filter |-> args.type_filter, loaded |-> FALSE]

\* The loader PluginLoader.__init__ leaves when it returns
PluginLoader(args, blacklist) ==
    [constructed |-> TRUE,
     group |-> IF args.group = None THEN DEFAULT ELSE args.group,
     library |-> args.library, modules |-> args.modules, paths |-> args.paths,
     entry_point |-> args.entry_point, blacklist |-> blacklist,
     type_filter |-> args.type_filter, loaded |-> FALSE]

\* The record of an operation of the loader: the discovery it ran (outcome
\* "load_modules" when it ran load_modules), with the calls of _import_module
\* and the diagnostics of st
Reported(op, query, result, raised, ran, st) ==
    [Asked(op, query, result, raised)
        EXCEPT !.outcome = IF ran THEN "load_modules" ELSE "none",
               !.log = st.log, !.diag = st.diag]

\* loader = PluginLoader(**args)
NewLoader(args) ==
    /\ ~loader.constructed
    /\ \E made \in {EntriesFrom(args.blacklist, 1, <<>>)} :
        /\ loader' = IF made.raised = None THEN PluginLoader(args, made.entry) ELSE loader
        /\ last' = Asked("PluginLoader", args, NoneValue, made.raised)
    /\ UNCHANGED <<plugins, classes, program, caches, sys_modules, threads>>

\* The process is as the imports left it
Left(st) ==
    /\ plugins' = st.plugins
    /\ classes' = st.classes
    /\ sys_modules' = st.sys_modules

\* import <name> in the application
Import(name) ==
    /\ name \notin sys_modules
    /\ Len(classes) < MaxLoaded
    /\ \E st \in {import_module(Importing(plugins, classes, caches, sys_modules), name,
                                  FALSE)} :
        /\ Left(st)
        /\ caches' = st.caches
        /\ last' = Reported("import", name, NoneValue, st.raised, FALSE, st)
    /\ UNCHANGED <<program, loader, threads>>

\* Variant: the flag is set whether or not an exception propagated
FlagSet(self, st) == TRUE

\* self.loaded after load_modules left st: "self.loaded = True" is reached
\* when nothing propagated
Flag(self, st) == self.loaded \/ st.raised = None

\* loader.load_modules()
LoadModules ==
    /\ loader.constructed
    /\ Len(classes) < MaxLoaded
    /\ \E st \in {load_modules(Importing(plugins, classes, caches, sys_modules),
                                 Turns(loader), 1)} :
        /\ Left(st)
        /\ caches' = st.caches
        /\ loader' = [loader EXCEPT !.loaded = Flag(loader, st)]
        /\ last' = Reported("load_modules", None, NoneValue, st.raised, TRUE, st)
    /\ UNCHANGED <<program, threads>>

\* Variant: every access runs load_modules
DiscoveredAgain(st, self) == load_modules(st, Turns(self), 1)

\* "if not self.loaded: self.load_modules()" of the three accessors
Discovered(st, self) == IF self.loaded THEN st ELSE load_modules(st, Turns(self), 1)

\* get_plugins()[self.group]._filter(blacklist=self.blacklist,
\* newest_only=newest_only, type_filter=self.type_filter, **kwargs) after the
\* discovery that left st
Access(op, newest_only, kwargs, st) ==
    /\ Left(st)
    /\ loader' = [loader EXCEPT !.loaded = Flag(loader, st)]
    /\ IF st.raised # None
       THEN /\ last' = Reported(op, kwargs, NoneValue, st.raised, TRUE, st)
            /\ caches' = st.caches
       ELSE IF loader.group \notin DOMAIN st.plugins
       THEN /\ last' = Reported(op, kwargs, NoneValue, "KeyError", ~loader.loaded, st)
            /\ caches' = st.caches
       ELSE /\ last' = Reported(op, kwargs,
                                GroupDict_filter(st.plugins[loader.group], loader.group,
                                                 st.caches, loader.blacklist, newest_only,
                                                 loader.type_filter, kwargs),
                                None, ~loader.loaded, st)
            /\ caches' = CachesAfter(st.plugins[loader.group], loader.group, st.caches,
                                     loader.blacklist, newest_only, loader.type_filter,
                                     kwargs)
    /\ UNCHANGED <<program, threads>>

\* The accessor may run: a loader exists, and a pass starts within the bound
Accessible == loader.constructed /\ (loader.loaded \/ Len(classes) < MaxLoaded)

Kwargs(type, name, version) == [type |-> type, name |-> name, version |-> version]

\* loader.plugins
Plugins ==
    /\ Accessible
    /\ \E st \in {Discovered(Importing(plugins, classes, caches, sys_modules), loader)} :
        Access("plugins", TRUE, Kwargs(None, None, None), st)

\* loader.plugins_all
PluginsAll ==
    /\ Accessible
    /\ \E st \in {Discovered(Importing(plugins, classes, caches, sys_modules), loader)} :
        Access("plugins_all", FALSE, Kwargs(None, None, None), st)

\* loader.get_plugin(plugin_type, name, version)
GetPlugin(plugin_type, name, version) ==
    /\ Accessible
    /\ \E st \in {Discovered(Importing(plugins, classes, caches, sys_modules), loader)} :
        Access("get_plugin", TRUE, Kwargs(plugin_type, name, version), st)

InitLoader == program \in LoaderPrograms /\ Started

NextLoader ==
    \/ \E args \in LoaderArguments(program) : NewLoader(args)
    \/ \E name \in Imports(program) : Import(name)
    \/ LoadModules
    \/ Plugins
    \/ PluginsAll
    \/ \E plugin_type \in {"parser", "engine", "penguin"}, name \in {"json", "xml", "steam"},
          version \in {None, "2.0", "300.1.1"} :
            GetPlugin(plugin_type, name, version)

SpecLoader == InitLoader /\ [][NextLoader]_vars

\* ---------------------------------------------------------------- C11
\* The version container a query of the last operation was put to
Asked_self == Versions(plugins, last.query.group, last.query.type, last.query.name)

\* The registered versions no entry of the blacklist of the query excludes: no
\* entry satisfies operator(version, entry version)
Survivors ==
    {v \in DOMAIN Asked_self :
        \A i \in 1..Len(last.query.blacklist) :
            ~OPERATORS(last.query.blacklist[i].operator, parse_version(v),
                       parse_version(last.query.blacklist[i].version))}

\* C11: PluginDict._filter on a non-empty version container with any
\* blacklist: with an exact version selector it returns that version's class if
\* the version is registered and no entry excludes it, else None; otherwise with
\* newest_only it returns the class at the highest version no entry excludes
\* (None when there is none); otherwise it returns an ordered mapping of
\* exactly the versions no entry excludes, in ascending version order.
C11_VersionSelection ==
    (last.op = "PluginDict._filter" /\ Asked_self # EmptyDict) =>
        LET result == last.result
        IN CASE last.query.version # None ->
                    result = IF last.query.version \in Survivors
                             THEN Class(Asked_self[last.query.version]) ELSE NoneValue
             [] last.query.version = None /\ last.query.newest_only ->
                    IF Survivors = {} THEN result = NoneValue
                    ELSE /\ result.kind = "class"
                         /\ \E v \in Survivors :
                              /\ result.cls = Asked_self[v]
                              /\ \A o \in Survivors :
                                    ~VersionLess(parse_version(v), parse_version(o))
             [] OTHER ->
                    /\ result.kind = "OrderedDict"
                    /\ {item[1] : item \in {result.items[i] : i \in 1..Len(result.items)}}
                          = Survivors
                    /\ \A i \in 1..Len(result.items) :
                          /\ result.items[i][2] = Asked_self[result.items[i][1]]
                          /\ \A j \in (i + 1)..Len(result.items) :
                                VersionLess(parse_version(result.items[i][1]),
                                            parse_version(result.items[j][1]))

\* The newest of three registered versions is excluded by one of two entries,
\* and the newest-only query returned another one
C11_Witness ==
    /\ last.op = "PluginDict._filter"
    /\ Cardinality(DOMAIN Asked_self) = 3
    /\ Len(last.query.blacklist) = 2
    /\ last.query.blacklist[1] # last.query.blacklist[2]
    /\ last.query.version = None
    /\ last.query.newest_only
    /\ last.result.kind = "class"
    /\ Cardinality(Survivors) = 1
    /\ \E v \in DOMAIN Asked_self : v \notin Survivors /\ Asked_self[v] > last.result.cls

\* ---------------------------------------------------------------- C12
\* The last operation returned a view of the loader
Viewed == last.op \in {"plugins", "plugins_all"} /\ last.raised = None

\* An entry of the loader's blacklist excludes the version of name of type
Excluded(type, name, version) ==
    \E i \in 1..Len(loader.blacklist) :
        /\ loader.blacklist[i].type \in {None, type}
        /\ loader.blacklist[i].name \in {None, name}
        /\ \/ loader.blacklist[i].version = None
           \/ OPERATORS(loader.blacklist[i].operator, parse_version(version),
                        parse_version(loader.blacklist[i].version))

\* An entry of the loader's blacklist names the type and nothing else
Suppressed(type) ==
    \E i \in 1..Len(loader.blacklist) :
        /\ loader.blacklist[i].type = type
        /\ loader.blacklist[i].name = None
        /\ loader.blacklist[i].version = None

\* C12: in the newest view and the all-versions view of a loader every
\* extension-point type of the loader's group that passes the type filter is a
\* key, also when it has no implementation and when a blacklist entry suppresses
\* the whole type (its value is then an empty mapping); a name is a key under
\* its type if and only if at least one of its versions is not excluded by the
\* blacklist, and its value is never empty or None.
C12_ViewKeys ==
    Viewed =>
        /\ last.result.kind = "dict"
        /\ \A type \in DOMAIN plugins[loader.group] :
            (loader.type_filter = {} \/ type \in loader.type_filter) =>
                /\ type \in DOMAIN last.result.items
                /\ last.result.items[type].kind = "dict"
                /\ Suppressed(type) => last.result.items[type].items = EmptyDict
                /\ \A name \in DOMAIN plugins[loader.group][type].names :
                    /\ name \in DOMAIN last.result.items[type].items
                        <=> \E version \in DOMAIN plugins[loader.group][type].names[name] :
                                ~Excluded(type, name, version)
                    /\ name \in DOMAIN last.result.items[type].items =>
                            Result(last.result.items[type].items[name])
                /\ DOMAIN last.result.items[type].items
                        \subseteq DOMAIN plugins[loader.group][type].names

\* A view with a type that has no implementation, a type a blacklist entry
\* suppresses, a name the blacklist excludes as a whole and a name that keeps
\* one of its two versions
C12_Witness ==
    /\ Viewed
    /\ {"hook", "engine", "parser"} \subseteq DOMAIN last.result.items
    /\ plugins[loader.group]["hook"].names = EmptyDict
    /\ Suppressed("engine")
    /\ "steam" \in DOMAIN plugins[loader.group]["engine"].names
    /\ last.result.items["engine"].items = EmptyDict
    /\ DOMAIN plugins[loader.group]["parser"].names = {"json", "xml"}
    /\ DOMAIN last.result.items["parser"].items = {"json"}
    /\ Excluded("parser", "json", "2.0")

\* ---------------------------------------------------------------- C13
\* The step is an access to the query surface of a loader with a type filter
\* out of which no import failure propagated
FilteredAccess ==
    /\ last'.op \in {"plugins", "plugins_all", "get_plugin"}
    /\ last'.raised # "PluginImportError"
    /\ loader'.type_filter # {}

\* What C13 says of such an access: a view has no type key outside the filter;
\* a retrieval with a type selector outside the filter returns None, and leaves
\* the cache of every version container as discovery left it
Scoped ==
    /\ (last'.op \in {"plugins", "plugins_all"} /\ last'.raised = None) =>
            DOMAIN last'.result.items \subseteq loader'.type_filter
    /\ (last'.op = "get_plugin" /\ last'.query.type \notin loader'.type_filter) =>
            /\ last'.raised = None
            /\ last'.result = NoneValue
            /\ loader.loaded => caches' = caches

\* C13: for a loader configured with a type filter, no view (newest,
\* all-versions) contains a type key outside the filter, and a retrieval with
\* an exact type selector outside the filter returns None without consulting
\* any type container, whatever implementations of that type are registered.
C13_TypeFilterScoping == [][FilteredAccess => Scoped]_vars

\* The same for the loaders whose group has been declared by an extension point
\* or is the default group
C13_DeclaredGroup ==
    [][(FilteredAccess /\ loader'.group \in DOMAIN plugins') => Scoped]_vars

\* ---------------------------------------------------------------- C14
\* The versions of name of type in the loader's group that the blacklist does
\* not exclude
Available(type, name) ==
    {version \in DOMAIN Versions(plugins, loader.group, type, name) :
        ~Excluded(type, name, version)}

\* What C14 says get_plugin(type, name, version) returns
Expected(type, name, version) ==
    IF loader.type_filter # {} /\ type \notin loader.type_filter THEN NoneValue
    ELSE IF version # None
    THEN IF version \in Available(type, name)
         THEN Class(Versions(plugins, loader.group, type, name)[version])
         ELSE NoneValue
    ELSE IF Available(type, name) = {} THEN NoneValue
    ELSE Class(Versions(plugins, loader.group, type, name)[
                CHOOSE v \in Available(type, name) :
                    \A o \in Available(type, name) :
                        ~VersionLess(parse_version(v), parse_version(o))])

\* The last operation was a get_plugin out of which no import failure propagated
Retrieved == last.op = "get_plugin" /\ last.raised # "PluginImportError"

\* C14: get_plugin(type, name) with no version returns the newest
\* non-blacklisted version of that implementation; with an explicit version it
\* returns exactly that version, or None if that version does not exist or is
\* blacklisted; it returns None and raises nothing when the type or the name
\* does not exist, when the type or the name is blacklisted as a whole, and
\* always when the type is outside the configured type filter.
C14_GetPlugin ==
    Retrieved =>
        /\ last.raised = None
        /\ last.result = Expected(last.query.type, last.query.name, last.query.version)

\* The same for the loaders whose group has been declared by an extension point
\* or is the default group
C14_DeclaredGroup ==
    (Retrieved /\ loader.group \in DOMAIN plugins) =>
        /\ last.raised = None
        /\ last.result = Expected(last.query.type, last.query.name, last.query.version)

\* A loader of a group no extension point was declared in looked a plugin up
C14_UndeclaredGroup ==
    /\ Retrieved
    /\ loader.loaded
    /\ loader.group \notin DOMAIN plugins
    /\ last.raised = "KeyError"

\* ---------------------------------------------------------------- C15
\* The step is an access to the query surface of the loader
Accessed == last'.op \in {"plugins", "plugins_all", "get_plugin"}

\* The loader has a source configured
Configured(self) ==
    self.library # None \/ self.entry_point # None \/ self.modules # <<>> \/ self.paths # <<>>

\* C15: over any sequence of accesses to a loader's query surface (newest
\* view, all-versions view, get_plugin) in which the first discovery pass
\* succeeds, discovery runs exactly once, on the first access: an access by a
\* loader that is not loaded runs the pass, and when the pass succeeds the
\* loader is loaded; an access by a loaded loader imports nothing and registers
\* nothing; and two accesses of the same kind with no registration in between
\* return equal values.
C15_LazySingleDiscovery ==
    [][Accessed =>
        /\ ~loader.loaded =>
            /\ Configured(loader) => last'.log # <<>>
            /\ last'.raised # "PluginImportError" => loader'.loaded
        /\ loader.loaded =>
            /\ last'.log = <<>> /\ last'.diag = <<>>
            /\ plugins' = plugins /\ classes' = classes /\ sys_modules' = sys_modules
            /\ loader' = loader
            /\ (last.op = last'.op /\ last.query = last'.query) =>
                    (last'.result = last.result /\ last'.raised = last.raised)]_vars

\* A loaded loader returned a view with an implementation in it without
\* running discovery
C15_Witness ==
    /\ last.op = "plugins"
    /\ last.raised = None
    /\ loader.loaded
    /\ last.outcome = "none"
    /\ last.log = <<>>
    /\ "parser" \in DOMAIN last.result.items
    /\ "json" \in DOMAIN last.result.items["parser"].items

\* ---------------------------------------------------------------- C16
\* C16: once a loader's loaded flag is true, invoking load_modules again does
\* not re-run discovery: no source is imported a second time, and no further
\* registration or duplicate diagnostic results.
C16_LoadOnce ==
    [][(loader.loaded /\ last'.op = "load_modules") =>
            /\ last'.log = <<>>
            /\ last'.diag = <<>>
            /\ plugins' = plugins /\ classes' = classes /\ sys_modules' = sys_modules]_vars

\* load_modules ran the one file of the one directory of the loader's paths a
\* second time: its class statement made a second class, which was reported as
\* a duplicate
C16_RanAgain ==
    /\ last.op = "load_modules"
    /\ loader.loaded
    /\ loader.paths = <<"nowhere", "lib/engines">>
    /\ last.log = <<<<"paths", "lib.engines.steam">>>>
    /\ Diag("PluginWarning", "Duplicate plugins found")
            \in {last.diag[i] : i \in 1..Len(last.diag)}
    /\ Cardinality({c \in 1..Len(classes) : classes[c].name = "Steam"}) = 2

\* ---------------------------------------------------------------- C17
\* C17: a loader's loaded flag is false at construction, becomes true only at
\* the end of a discovery pass out of which no import failure propagated, and
\* is never set back to false; a pass aborted by an import failure leaves the
\* flag false, so the next access to the query surface attempts discovery again.
C17_LoadedFlag ==
    [][/\ (~loader.constructed /\ loader'.constructed) => ~loader'.loaded
       /\ loader.loaded => loader'.loaded
       /\ (~loader.loaded /\ loader'.loaded) =>
            /\ last'.outcome = "load_modules"
            /\ last'.raised # "PluginImportError"
       /\ last'.raised = "PluginImportError" => loader'.loaded = loader.loaded
       /\ (last.raised = "PluginImportError" /\ ~loader.loaded /\ Accessed) =>
            last'.log # <<>>]_vars

\* A second pass of a loader ended like the first with the import failure of
\* the module that raises, after running it again; the loader is not loaded
C17_Witness ==
    /\ last.raised = "PluginImportError"
    /\ last.op \in {"plugins", "plugins_all", "get_plugin"}
    /\ loader.constructed
    /\ ~loader.loaded
    /\ last.log[Len(last.log)] = <<"modules", "bad2">>
    /\ Cardinality({c \in 1..Len(classes) : classes[c].name = "Electric"}) = 2

\* ---------------------------------------------------------------- C18
\* The place of a source in the order C18 states
Rank(source) ==
    CASE source = "library" -> 1
      [] source = "entry_point" -> 2
      [] source = "modules" -> 3
      [] source = "paths" -> 4

\* The sources the calls of the log were made for
Sources(log) == {log[i][1] : i \in 1..Len(log)}

\* Class c was made by a class statement for the key of registry entry e
SameKey(c, e) ==
    /\ ~IsParent(classes, classes[c])
    /\ GroupKey(classes, classes[c]) = e[1]
    /\ GetAttr(classes, classes[c], "type") = e[2]
    /\ PluginName(classes, classes[c]) = e[3]
    /\ VersionKey(classes, classes[c], None) = e[4]

\* C18: within one discovery pass every import for the standard library
\* precedes every import for entry points, which precede every import for
\* explicit modules, which precede every import for explicit paths; a source
\* that is not configured is skipped. Hence when two sources define the same
\* (type, name, version) key, the implementation made first, by the earlier
\* source, is the one registered.
C18_SourceOrder ==
    last.outcome = "load_modules" =>
        /\ \A i \in 1..Len(last.log) : \A j \in i..Len(last.log) :
                Rank(last.log[i][1]) <= Rank(last.log[j][1])
        /\ "library" \in Sources(last.log) => loader.library # None
        /\ "entry_point" \in Sources(last.log) => loader.entry_point # None
        /\ "modules" \in Sources(last.log) => loader.modules # <<>>
        /\ "paths" \in Sources(last.log) => loader.paths # <<>>
        /\ last.raised # "PluginImportError" =>
            /\ loader.library # None => "library" \in Sources(last.log)
            /\ loader.modules # <<>> => "modules" \in Sources(last.log)
        /\ \A e \in Entries(plugins) : \A c \in 1..Len(classes) :
                SameKey(c, e) => e[5] <= c

\* A pass over all four sources: the entry point's module defines the key
\* (parser, json, 2.0) the library defined, and the path's file the key of the
\* library's engine; the library's classes are the ones registered
C18_Witness ==
    /\ last.outcome = "load_modules"
    /\ last.raised = None
    /\ Sources(last.log) = {"library", "entry_point", "modules", "paths"}
    /\ "testdata" \in DOMAIN plugins
    /\ classes[Versions(plugins, "testdata", "parser", "json")["2.0"]].name = "JSON2"
    /\ \E c \in 1..Len(classes) : classes[c].name = "JSON3"
    /\ Cardinality({c \in 1..Len(classes) : classes[c].name = "Steam"}) = 2
    /\ \A c \in 1..Len(classes) :
            classes[c].name = "Steam" =>
                Versions(plugins, "testdata", "engine", "steam")["0"] <= c

\* ---------------------------------------------------------------- C19
\* The last operation ran a discovery pass of a loader with an entry point group
EntryPointPass == last.outcome = "load_modules" /\ loader.entry_point # None

\* The entries of the loader's entry point group whose module cannot be loaded
Unloadable ==
    {k \in DOMAIN iter_entry_points(loader.entry_point) :
        \/ iter_entry_points(loader.entry_point)[k].module_name \notin ModuleNames
        \/ TestData(iter_entry_points(loader.entry_point)[k].module_name).raises}

\* The warnings of the pass about entries that cannot be loaded
NotLoaded ==
    {i \in 1..Len(last.diag) :
        last.diag[i] = Diag("EntryPointWarning", "can not be loaded for entry point")}

\* Each entry whose loading fails yields one EntryPointWarning and is skipped,
\* the remaining entries and the later sources are still processed, and the
\* pass completes with the loaded flag true
EntriesSkipped ==
    /\ Cardinality(NotLoaded) = Cardinality(Unloadable)
    /\ \A k \in DOMAIN iter_entry_points(loader.entry_point) :
            <<"entry_point", iter_entry_points(loader.entry_point)[k].module_name>>
                \in {last.log[i] : i \in 1..Len(last.log)}
    /\ loader.modules # <<>> => "modules" \in Sources(last.log)
    /\ loader.paths # <<>> => "paths" \in Sources(last.log)
    /\ loader.loaded

\* C19: during the entry point step of discovery no import failure propagates
\* out of the pass: each entry whose loading fails yields one
\* EntryPointWarning and is skipped, the remaining entries and the later
\* sources are still processed, and the pass completes with the loaded flag
\* true. Only failures in the library, modules and paths steps abort discovery.
C19_EntryPointFailures ==
    EntryPointPass =>
        IF last.raised = "PluginImportError"
        THEN last.log[Len(last.log)][1] \in {"library", "modules", "paths"}
        ELSE EntriesSkipped

\* The same for the passes that were not aborted
C19_EntryLoading ==
    (EntryPointPass /\ last.raised # "PluginImportError") => EntriesSkipped

\* A pass was aborted by the import failure of a module found in the package
\* an entry point names; the loader is not loaded
C19_Aborted ==
    /\ EntryPointPass
    /\ last.raised = "PluginImportError"
    /\ last.log = <<<<"entry_point", "plug">>, <<"entry_point", "plug.broken">>>>
    /\ ~loader.loaded

\* A pass went on after an entry that cannot be loaded and one that is not a module
C19_Skipped ==
    /\ EntryPointPass
    /\ last.raised = None
    /\ Cardinality(NotLoaded) = 1
    /\ Len(last.diag) = 2
    /\ Sources(last.log) = {"entry_point", "paths"}

\* ---------------------------------------------------------------- C20
\* The last operation constructed a loader from a blacklist of one tuple of
\* arguments for BlacklistEntry
EntryGiven == last.op = "PluginLoader" /\ Len(last.query.blacklist) = 1

\* The version of the tuple after the operator and the version have changed
\* places where the third value is an operator symbol
Normalized(a) == IF a[3] \in OperatorSymbols THEN a[4] ELSE a[3]

Written == {None, "1.0", "2.0"} \cup OperatorSymbols

\* entry = BlacklistEntry(plugin_type, name, version, operator)
NewEntry(plugin_type, name, version, operator) ==
    /\ last' = Asked("BlacklistEntry", <<plugin_type, name, version, operator>>,
                     BlacklistEntry(plugin_type, name, version, operator), None)
    /\ UNCHANGED <<plugins, classes, program, caches, loader, sys_modules, threads>>

InitEntry == program = "blacklist entries" /\ Started

NextEntry ==
    \E plugin_type \in {None, "parser"}, name \in {None, "json"},
       version \in Written, operator \in Written :
            NewEntry(plugin_type, name, version, operator)

SpecEntry == InitEntry /\ [][NextEntry]_vars

\* ---------------------------------------------------------------- C21
\* The last operation constructed a blacklist entry from a version string and
\* an operator symbol, in the order third, fourth
Paired(third, fourth) ==
    /\ last.op = "BlacklistEntry"
    /\ last.query[third] \in {"1.0", "2.0"}
    /\ last.query[fourth] \in OperatorSymbols

\* C21: for every type, name, version string v and operator symbol op of the
\* seven, BlacklistEntry(type, name, v, op) and BlacklistEntry(type, name, op, v)
\* produce entries with equal type, name, version and operator fields, with
\* version = v and operator = op.
C21_SwapEquivalence ==
    /\ Paired(3, 4) =>
        /\ last.result.raised = None
        /\ last.result.entry = Entry(last.query[1], last.query[2], last.query[3], last.query[4])
        /\ last.result = BlacklistEntry(last.query[1], last.query[2], last.query[4],
                                        last.query[3])
    /\ Paired(4, 3) =>
        /\ last.result.raised = None
        /\ last.result.entry = Entry(last.query[1], last.query[2], last.query[4], last.query[3])
        /\ last.result = BlacklistEntry(last.query[1], last.query[2], last.query[4],
                                        last.query[3])

\* An entry was written with the operator before the version, and no type
C21_Witness ==
    /\ Paired(4, 3)
    /\ last.query = <<None, "json", "<=", "2.0">>
    /\ last.result.entry.version = "2.0"
    /\ last.result.entry.operator = "<="

\* ================================================================ CachingDict
\* In SpecCache the variable plugins holds one CachingDict (self, key to
\* value) and caches holds its self._cache.
\* What a call of a method leaves: the items, the cache, the value returned
\* and the exception raised
Effect(self, _cache, result, raised) ==
    [self |-> self, _cache |-> _cache, result |-> result, raised |-> raised]

\* CachingDict.__setitem__(key, value)
__setitem__(self, _cache, key, value) == Effect(DictSet(self, key, value), EmptyDict, None, None)

\* CachingDict.__delitem__(key): "finally" clears the cache also when
\* dict.__delitem__ raised KeyError
__delitem__(self, _cache, key) ==
    IF key \in DOMAIN self THEN Effect(DictDel(self, key), EmptyDict, None, None)
    ELSE Effect(self, EmptyDict, None, "KeyError")

\* CachingDict.clear()
clear(self, _cache) == Effect(EmptyDict, EmptyDict, None, None)

\* Variant: setdefault clears the cache whether or not it inserts
setdefault_clearing(self, _cache, key, default) ==
    IF key \in DOMAIN self THEN Effect(self, EmptyDict, self[key], None)
    ELSE Effect(DictSet(self, key, default), EmptyDict, default, None)

\* CachingDict.setdefault(key, default)
setdefault(self, _cache, key, default) ==
    IF key \in DOMAIN self THEN Effect(self, _cache, self[key], None)
    ELSE Effect(__setitem__(self, _cache, key, default).self,
                __setitem__(self, _cache, key, default)._cache, default, None)

\* CachingDict.pop(*args) with args = <<key>> or <<key, default>>: the cache
\* is cleared in the "else" of the try, when dict.pop raised no KeyError
pop(self, _cache, args) ==
    IF args[1] \in DOMAIN self THEN Effect(DictDel(self, args[1]), EmptyDict, self[args[1]], None)
    ELSE IF Len(args) = 2 THEN Effect(self, EmptyDict, args[2], None)
    ELSE Effect(self, _cache, None, "KeyError")

\* CachingDict.popitem() when dict.popitem takes the item at key
popitem(self, _cache, key) ==
    IF self = EmptyDict THEN Effect(self, _cache, None, "KeyError")
    ELSE Effect(DictDel(self, key), EmptyDict, <<key, self[key]>>, None)

\* The call of a method of the CachingDict that left effect
Applied(op, query, effect) ==
    /\ plugins' = effect.self
    /\ caches' = effect._cache
    /\ last' = Asked(op, query, effect.result, effect.raised)
    /\ UNCHANGED <<classes, program, loader, sys_modules, threads>>

\* The keys and values the application uses
Keys == {"hello", "Hey"}
Values == {"world", "Jude", None}

\* cdict = CachingDict()
InitCache ==
    /\ program = "caching dictionary"
    /\ plugins = EmptyDict
    /\ caches = EmptyDict
    /\ classes = <<>>
    /\ last = Asked("CachingDict", None, None, None)
    /\ loader = NoLoader
    /\ sys_modules = {}
    /\ threads = <<>>

NextCache ==
    \/ \E key \in Keys, value \in Values :
            Applied("__setitem__", <<key, value>>, __setitem__(plugins, caches, key, value))
    \/ \E key \in Keys : Applied("__delitem__", <<key>>, __delitem__(plugins, caches, key))
    \/ Applied("clear", <<>>, clear(plugins, caches))
    \/ \E key \in Keys, default \in Values :
            Applied("setdefault", <<key, default>>, setdefault(plugins, caches, key, default))
    \/ \E key \in Keys, n \in 1..2, default \in Values :
            Applied("pop", SubSeq(<<key, default>>, 1, n),
                    pop(plugins, caches, SubSeq(<<key, default>>, 1, n)))
    \/ \E key \in IF plugins = EmptyDict THEN {None} ELSE DOMAIN plugins :
            Applied("popitem", <<>>, popitem(plugins, caches, key))
    \/ \E key \in {"test", "sorted_keys"} :
            Applied("_cache.__setitem__", <<key, "Testing">>,
                    Effect(plugins, DictSet(caches, key, "Testing"), None, None))

SpecCache == InitCache /\ [][NextCache]_vars

\* ---------------------------------------------------------------- C22
\* The step is a call of method op of the CachingDict
Method(op) == last'.op = op

C23_NothingRemoved ==
    [][((Method("pop") \/ Method("popitem")) /\ plugins' = plugins) => caches' = caches]_vars

\* The same for the calls that raise KeyError
C23_KeyError ==
    [][((Method("pop") \/ Method("popitem")) /\ last'.raised = "KeyError") =>
            (caches' = caches /\ plugins' = plugins)]_vars

\* pop of an absent key with a default returned the default; nothing was
\* removed and the cache is empty
C23_DefaultReturned ==
    /\ last.op = "pop"
    /\ last.query = <<"Hey", "Jude">>
    /\ last.result = "Jude"
    /\ last.raised = None
    /\ DOMAIN plugins = {"hello"}
    /\ caches = EmptyDict

\* ---------------------------------------------------------------- C24
\* The registry as if no declaration and no registration had taken place in
\* the groups other than g: only g and the default group, which exists from
\* the start, are there
Apart(reg, g) ==
    [h \in (DOMAIN reg) \cap {g, DEFAULT} |-> IF h = g THEN reg[h] ELSE EmptyDict]

\* What an accessor of a loader of group g returns on registry reg: the
\* filtered group, or KeyError
Answered(reg, g, newest_only, kwargs) ==
    IF g \notin DOMAIN reg THEN [result |-> NoneValue, raised |-> "KeyError"]
    ELSE [result |-> GroupDict_filter(reg[g], g, EmptyDict, loader'.blacklist, newest_only,
                                      loader'.type_filter, kwargs),
          raised |-> None]

Threads == {"first", "second"}

\* A thread between two calls
Idle ==
    [pc |-> "idle", blacklist |-> <<>>, newest_only |-> FALSE, version |-> None,
     blacklist_cache |-> EmptyDict, excluded |-> {}, keys |-> <<>>, rtn |-> NoneValue]

\* Thread t goes on with locals self
Goes(t, self) ==
    /\ threads' = [threads EXCEPT ![t] = self]
    /\ UNCHANGED <<plugins, classes, last, program, loader, sys_modules>>

\* "version = kwargs.get('version', None); rtn = None; if self: if blacklist:"
\* of a call _filter(blacklist, newest_only=newest_only, version=version) by
\* thread t
Call(t, blacklist, newest_only, version) ==
    /\ threads[t].pc = "idle"
    /\ Goes(t, [Idle EXCEPT !.blacklist = blacklist, !.newest_only = newest_only,
                            !.version = version,
                            !.pc = IF plugins = EmptyDict THEN "return"
                                   ELSE IF blacklist # <<>> THEN "_process_blacklist"
                                   ELSE "select"])
    /\ UNCHANGED caches

\* "blacklist_cache_old = self._cache.get('blacklist', {})" and the loop over
\* the entries, which fills the thread's own blacklist_cache
Process(t) ==
    /\ threads[t].pc = "_process_blacklist"
    /\ Goes(t, [threads[t] EXCEPT
                    !.pc = "publish",
                    !.blacklist_cache =
                        ProcessFrom(plugins,
                                    IF "blacklist" \in DOMAIN caches THEN caches["blacklist"]
                                    ELSE EmptyDict,
                                    threads[t].blacklist, 1, EmptyDict)])
    /\ UNCHANGED caches

\* "self._cache['blacklist'] = blacklist_cache"
Publish(t) ==
    /\ threads[t].pc = "publish"
    /\ caches' = DictSet(caches, "blacklist", threads[t].blacklist_cache)
    /\ Goes(t, [threads[t] EXCEPT !.pc = "union"])

\* Variant: the excluded keys are taken from the cache of the container
UnionShared(blacklist_cache, _cache) ==
    UNION {_cache["blacklist"][k] : k \in DOMAIN _cache["blacklist"]}

\* "return set().union(*blacklist_cache.values())"
Union(blacklist_cache, _cache) == UNION {blacklist_cache[k] : k \in DOMAIN blacklist_cache}

\* _process_blacklist returns to _filter
Return_process_blacklist(t) ==
    /\ threads[t].pc = "union"
    /\ Goes(t, [threads[t] EXCEPT !.pc = "select",
                                  !.excluded = Union(threads[t].blacklist_cache, caches)])
    /\ UNCHANGED caches

\* What _filter returns once it has the sorted keys
Selected(self, keys) ==
    IF self.newest_only THEN NewestOf(plugins, Filtered(keys, caches), self.excluded).rtn
    ELSE AllOf(plugins, Filtered(keys, caches), self.excluded).rtn

\* The branches of _filter on version and newest_only, up to the try of
\* _sorted_keys: "keys = self._cache['sorted_keys']"
SelectStep(t) ==
    /\ threads[t].pc = "select"
    /\ Goes(t, IF threads[t].version \notin {None, ""}
               THEN [threads[t] EXCEPT
                        !.pc = "return",
                        !.rtn = Exact(plugins, threads[t].version, threads[t].excluded)]
               ELSE IF "sorted_keys" \in DOMAIN caches
               THEN [threads[t] EXCEPT
                        !.pc = "return", !.keys = caches["sorted_keys"],
                        !.rtn = Selected(threads[t], caches["sorted_keys"])]
               ELSE [threads[t] EXCEPT
                        !.pc = "sorted", !.keys = SortedFrom(plugins, DOMAIN plugins)])
    /\ UNCHANGED caches

\* "except KeyError: keys = self._cache['sorted_keys'] = sorted(...)": the
\* store, and the loop of _filter over the keys
Store(t) ==
    /\ threads[t].pc = "sorted"
    /\ caches' = DictSet(caches, "sorted_keys", threads[t].keys)
    /\ Goes(t, [threads[t] EXCEPT !.pc = "return",
                                  !.rtn = Selected(threads[t], threads[t].keys)])

\* "return rtn"
Return_filter(t) ==
    /\ threads[t].pc = "return"
    /\ threads' = [threads EXCEPT ![t] = Idle]
    /\ last' = Asked("PluginDict._filter",
                     [thread |-> t, blacklist |-> threads[t].blacklist,
                      newest_only |-> threads[t].newest_only,
                      version |-> threads[t].version],
                     threads[t].rtn, None)
    /\ UNCHANGED <<plugins, classes, program, caches, loader, sys_modules>>

\* The version containers discovery left, and the blacklists of the queries
Containers ==
    {EmptyDict, [v \in {"1.0"} |-> 1],
     [v \in {"1.0", "2.0", "3.0"} |-> CASE v = "2.0" -> 1 [] v = "1.0" -> 2 [] OTHER -> 3]}
ThreadBlacklists ==
    {<<>>, <<Entry(None, None, "1.0", "==")>>, <<Entry(None, None, "2.0", ">=")>>,
     <<Entry(None, None, "2.0", ">="), Entry(None, None, "1.0", "==")>>}

InitThreads ==
    /\ program = "threads"
    /\ plugins \in Containers
    /\ caches = EmptyDict
    /\ classes = <<>>
    /\ last = Asked("PluginDict", None, NoneValue, None)
    /\ loader = NoLoader
    /\ sys_modules = {}
    /\ threads = [t \in Threads |-> Idle]

NextThreads ==
    \E t \in Threads :
        \/ \E blacklist \in ThreadBlacklists, newest_only \in BOOLEAN,
              version \in {None, "1.0"} :
                Call(t, blacklist, newest_only, version)
        \/ Process(t)
        \/ Publish(t)
        \/ Return_process_blacklist(t)
        \/ SelectStep(t)
        \/ Store(t)
        \/ Return_filter(t)

SpecThreads == InitThreads /\ [][NextThreads]_vars

\* ---------------------------------------------------------------- C25
\* Thread t returns from _filter in this step
Returns(t) == threads[t].pc = "return" /\ threads'[t].pc = "idle"

\* C25: with discovery completed and no registration in flight, in every
\* interleaving of the steps of two threads that query the same version
\* container (same or different blacklists, newest-only or all versions or an
\* exact version) every query returns what it returns when run alone on an
\* empty cache, and no step changes the container.
C25_ConcurrentQueries ==
    [][/\ plugins' = plugins
       /\ \A t \in Threads :
            Returns(t) =>
                last'.result = PluginDict_filter(plugins, EmptyDict, threads[t].blacklist,
                                                 threads[t].newest_only,
                                                 threads[t].version).rtn]_vars

\* A thread returned the newest version left by its blacklist although the
\* other thread has meanwhile replaced the exclusion cache with the sets of a
\* different blacklist and is still inside its own query
C25_Witness ==
    /\ program = "threads"
    /\ last.op = "PluginDict._filter"
    /\ last.query.thread = "first"
    /\ last.query.blacklist = <<Entry(None, None, "2.0", ">=")>>
    /\ last.query.newest_only
    /\ last.query.version = None
    /\ last.result = Class(2)
    /\ "blacklist" \in DOMAIN caches
    /\ DOMAIN caches["blacklist"] = {<<"1.0", "==">>}
    /\ threads["second"].pc = "select"

\* ================================================================ cache coherence
\* Registrations, removals (Parent applied to a registered implementation)
\* and filtered retrievals in any order
NextCoherence ==
    \/ NextFilter
    \/ \E c \in 1..Len(classes), args \in ParentArgs(program) : DecoratePlugin(c, args)

\* The programs with the entries ("2.0", "!="), ("2.0", "=="), ("3.0", "<")
\* and ("1.0", ">"), and the program whose implementations have the versions
\* "1.0" and "1.0.0"
InitCoherence == program \in {"unequal", "between", "spellings"} /\ Started

SpecCoherence == InitCoherence /\ [][NextCoherence]_vars

\* ---------------------------------------------------------------- C26
\* keys is the list of the keys of self in version order
SortedByVersion(self, keys) ==
    /\ Len(keys) = Cardinality(DOMAIN self)
    /\ {keys[i] : i \in 1..Len(keys)} = DOMAIN self
    /\ \A i, j \in 1..Len(keys) :
            i < j => ~VersionLess(parse_version(keys[j]), parse_version(keys[i]))

\* The cache kept for the version container at key agrees with the container
Coherent(key) ==
    /\ Versions(plugins, key[1], key[2], key[3]) # EmptyDict
    /\ "sorted_keys" \in DOMAIN caches[key] =>
            SortedByVersion(Versions(plugins, key[1], key[2], key[3]),
                            caches[key]["sorted_keys"])
    /\ "blacklist" \in DOMAIN caches[key] =>
            \A pair \in DOMAIN caches[key]["blacklist"] :
                caches[key]["blacklist"][pair]
                    = {v \in DOMAIN Versions(plugins, key[1], key[2], key[3]) :
                            OPERATORS(pair[2], parse_version(v),
                                      parse_version(IF pair[1] \in {None, ""} THEN "0"
                                                    ELSE pair[1]))}

\* The container the last retrieval was made on
Queried == <<last.query.group, last.query.type, last.query.name>>

\* C26: after any sequence of registrations, removals and filtered retrievals
\* the cached sorted-key list of a version container, when present, is the
\* container's current keys sorted by version, each cached exclusion set is the
\* set of current keys its (version, operator) pair excludes, after a
\* retrieval with a blacklist the exclusion cache has exactly the distinct
\* (version, operator) pairs of that blacklist, and every retrieval returns
\* what it returns with an empty cache.
C26_CacheCoherence ==
    /\ \A key \in DOMAIN caches : Coherent(key)
    /\ last.op = "PluginDict._filter" =>
        /\ last.result = PluginDict_filter(Versions(plugins, Queried[1], Queried[2],
                                                    Queried[3]),
                                           EmptyDict, last.query.blacklist,
                                           last.query.newest_only, last.query.version).rtn
        /\ last.query.blacklist # <<>> =>
            DOMAIN caches[Queried]["blacklist"]
                = {<<last.query.blacklist[i].version, last.query.blacklist[i].operator>> :
                        i \in 1..Len(last.query.blacklist)}

\* A retrieval with two different (version, operator) pairs on a container
\* from which the first implementation has been removed and that was filled
\* again: the cache has the sorted keys and two exclusion sets
C26_Witness ==
    /\ last.op = "PluginDict._filter"
    /\ Len(last.query.blacklist) = 2
    /\ last.query.version = None
    /\ Queried \in DOMAIN caches
    /\ DOMAIN caches[Queried] = {"sorted_keys", "blacklist"}
    /\ Cardinality(DOMAIN caches[Queried]["blacklist"]) = 2
    /\ Len(classes) = 4
    /\ \A v \in DOMAIN Versions(plugins, Queried[1], Queried[2], Queried[3]) :
            Versions(plugins, Queried[1], Queried[2], Queried[3])[v] \in {3, 4}
    /\ Cardinality(DOMAIN Versions(plugins, Queried[1], Queried[2], Queried[3])) = 2

\* ---------------------------------------------------------------- C27
\* Every version of the container is excluded by an entry of the blacklist of
\* the last retrieval
AllExcluded ==
    /\ plugins # EmptyDict
    /\ \A v \in DOMAIN plugins :
        \E i \in 1..Len(last.query.blacklist) : v \in Blacked(plugins, last.query.blacklist[i])

\* The last retrieval selected a single version: an exact one or the newest
SingleVersion == last.query.version # None \/ last.query.newest_only

\* C27 as stated: filtered retrieval on a version container that is empty, or
\* whose versions are all excluded by the blacklist, yields None for
\* single-version selection (exact version or newest-only) and an empty
\* ordered mapping for all-versions selection.
C27_EmptyOrExcluded ==
    (last.op = "PluginDict._filter" /\ (plugins = EmptyDict \/ AllExcluded)) =>
        last.result = IF SingleVersion THEN NoneValue ELSE OrderedDict(<<>>)

\* C27 amended: filtered retrieval on a version container whose versions are
\* all excluded by the blacklist yields None for single-version selection
\* (exact version or newest-only) and an empty ordered mapping for all-versions
\* selection; on an empty version container it yields None for every
\* selection, all-versions included.
C27_NoResult ==
    last.op = "PluginDict._filter" =>
        /\ AllExcluded => last.result = IF SingleVersion THEN NoneValue
                                        ELSE OrderedDict(<<>>)
        /\ plugins = EmptyDict => last.result = NoneValue

\* An all-versions retrieval whose blacklist excludes the only version
\* returned an empty ordered mapping
C27_Witness ==
    /\ last.op = "PluginDict._filter"
    /\ AllExcluded
    /\ ~SingleVersion
    /\ last.result = OrderedDict(<<>>)

\* An all-versions retrieval on an empty version container returned None
C27_EmptyContainer ==
    /\ last.op = "PluginDict._filter"
    /\ plugins = EmptyDict
    /\ ~SingleVersion
    /\ last.result = NoneValue

\* ---------------------------------------------------------------- C28
\* The version container the last retrieval was made on
Container == Versions(plugins, Queried[1], Queried[2], Queried[3])

\* The classes in the value the last retrieval returned
Returned ==
    CASE last.result.kind = "class" -> {last.result.cls}
      [] last.result.kind = "OrderedDict" ->
            {last.result.items[i][2] : i \in 1..Len(last.result.items)}
      [] OTHER -> {}

\* No version container holds two versions that are equal under the version
\* ordering
OneSpelling ==
    \A key \in NameKeys(plugins) :
        \A v, w \in DOMAIN Versions(plugins, key[1], key[2], key[3]) :
            parse_version(v) = parse_version(w) => v = w

\* An entry with operator == excludes every implementation whose version is
\* equal to the entry's under the version ordering, whatever its spelling
SpellingExcluded ==
    last.op = "PluginDict._filter" =>
        \A i \in 1..Len(last.query.blacklist) :
            last.query.blacklist[i].operator = "==" =>
                \A v \in DOMAIN Container :
                    parse_version(v) = parse_version(last.query.blacklist[i].version) =>
                        Container[v] \notin Returned

\* C28: version strings that normalize identically are the same version
\* throughout: within one (group, type, name) two implementations whose
\* versions are equal under the version ordering (1.0 and 1.0.0) are not both
\* retained, and a blacklist entry with operator == on one spelling excludes an
\* implementation registered under the other spelling.
C28_SameVersion == OneSpelling /\ SpellingExcluded

\* The half of C28 about the blacklist
C28_BlacklistSpelling == SpellingExcluded

\* The class statement of an implementation with version 1.0.0 was registered,
\* without a warning, next to the implementation of the same name with
\* version 1.0
C28_BothRetained ==
    /\ program = "spellings"
    /\ last.op = "class"
    /\ last.outcome = "registered"
    /\ last.diag = <<>>
    /\ \E key \in NameKeys(plugins) :
            DOMAIN Versions(plugins, key[1], key[2], key[3]) = {"1.0", "1.0.0"}

\* ================================================================ views under blacklists
\* The application imports modules of the test data and filters the group
\* "testdata" by a blacklist, by the blacklist with one more entry, and by
\* that longer blacklist in reverse order.
ViewEntries ==
    {BlacklistEntry(a[1], a[2], a[3], a[4]).entry :
        a \in {<<"parser", None, None, None>>, <<None, "json", None, None>>,
               <<"parser", "json", "2.0", None>>, <<None, None, "2.0", "<">>}}

\* The blacklists B: lists of entries other than the one for the name json
ViewBlacklists ==
    UNION {[1..n -> {e \in ViewEntries : e.version # None \/ e.type # None}] :
            n \in 0..MaxBlacklist}

RECURSIVE Reversed(_)
Reversed(seq) == IF seq = <<>> THEN <<>> ELSE Append(Reversed(Tail(seq)), Head(seq))

\* get_plugins()["testdata"]._filter(blacklist=blacklist, newest_only=newest_only)
\* with the three blacklists, one call after the other
FilterGroup(blacklist, entry, newest_only) ==
    /\ "testdata" \in DOMAIN plugins
    /\ \E first \in {CachesAfter(plugins["testdata"], "testdata", caches, blacklist,
                                 newest_only, {}, Kwargs(None, None, None))} :
       \E second \in {CachesAfter(plugins["testdata"], "testdata", first,
                                  Append(blacklist, entry), newest_only, {},
                                  Kwargs(None, None, None))} :
        /\ last' = Asked("GroupDict._filter",
                         [blacklist |-> blacklist, entry |-> entry,
                          newest_only |-> newest_only],
                         [alone |-> GroupDict_filter(plugins["testdata"], "testdata", caches,
                                                     blacklist, newest_only, {},
                                                     Kwargs(None, None, None)),
                          more |-> GroupDict_filter(plugins["testdata"], "testdata", first,
                                                    Append(blacklist, entry), newest_only,
                                                    {}, Kwargs(None, None, None)),
                          reversed |-> GroupDict_filter(plugins["testdata"], "testdata",
                                                        second,
                                                        Reversed(Append(blacklist, entry)),
                                                        newest_only, {},
                                                        Kwargs(None, None, None))],
                         None)
        /\ caches' = CachesAfter(plugins["testdata"], "testdata", second,
                                 Reversed(Append(blacklist, entry)), newest_only, {},
                                 Kwargs(None, None, None))
    /\ UNCHANGED <<plugins, classes, program, loader, sys_modules, threads>>

InitViews == program = "views" /\ Started

NextViews ==
    \/ \E name \in {"parents", "lib.parsers.json", "lib.engines.steam"} : Import(name)
    \/ \E blacklist \in ViewBlacklists, entry \in ViewEntries, newest_only \in BOOLEAN :
            FilterGroup(blacklist, entry, newest_only)

SpecViews == InitViews /\ [][NextViews]_vars

\* ---------------------------------------------------------------- C29
\* The (type, name, version) triples of an all-versions view
Triples(view) ==
    UNION {UNION {{<<type, name, view.items[type].items[name].items[i][1]>> :
                        i \in 1..Len(view.items[type].items[name].items)} :
                    name \in DOMAIN view.items[type].items} :
            type \in DOMAIN view.items}

\* The (type, name) pairs of a newest view
Names(view) ==
    UNION {{<<type, name>> : name \in DOMAIN view.items[type].items} :
            type \in DOMAIN view.items}

\* C29: for every registry state, every blacklist B and every further valid
\* entry e, the (type, name, version) triples of the all-versions view
\* filtered by B plus e are among those of the view filtered by B, every name
\* of the newest view under B plus e is in the newest view under B, and the
\* view does not depend on the order of the entries.
C29_BlacklistMonotonicity ==
    last.op = "GroupDict._filter" =>
        /\ ~last.query.newest_only =>
                Triples(last.result.more) \subseteq Triples(last.result.alone)
        /\ last.query.newest_only =>
                Names(last.result.more) \subseteq Names(last.result.alone)
        /\ last.result.reversed = last.result.more

\* The further entry took version 1.0 of json out of an all-versions view in
\* which the blacklist, which excludes version 2.0 of json, had left it
C29_Witness ==
    /\ last.op = "GroupDict._filter"
    /\ ~last.query.newest_only
    /\ Len(last.query.blacklist) = 1
    /\ <<"parser", "json", "1.0">> \in Triples(last.result.alone)
    /\ <<"parser", "json", "1.0">> \notin Triples(last.result.more)
    /\ last.query.blacklist[1].version = "2.0"
    /\ last.query.blacklist[1].type = "parser"
    /\ <<"parser", "json", "2.0">> \notin Triples(last.result.alone)

\* ---------------------------------------------------------------- C30
\* The last operation ran a discovery pass that an import failure aborted
Aborted == last.outcome = "load_modules" /\ last.raised = "PluginImportError"

\* The modules the pass called _import_module for, and the one that failed
Tried == {last.log[i][2] : i \in 1..Len(last.log)}
Failing == last.log[Len(last.log)][2]

\* The names of the classes the statements of module m define
ClassesOf(m) ==
    IF m \in ModuleNames
    THEN {TestData(m).statements[i].body.name : i \in DOMAIN TestData(m).statements}
    ELSE {}

\* The names of the classes the registry holds as implementations
RegisteredNames == {classes[e[5]].name : e \in Entries(plugins)}

\* The names of the classes in the all-versions view a loader of the same
\* group without sources and without blacklist gets
Visible ==
    IF loader.group \notin DOMAIN plugins THEN {}
    ELSE LET view == GroupDict_filter(plugins[loader.group], loader.group, EmptyDict, <<>>,
                                      FALSE, {}, Kwargs(None, None, None))
         IN UNION {UNION {{classes[view.items[type].items[name].items[i][2]].name :
                                i \in 1..Len(view.items[type].items[name].items)} :
                            name \in DOMAIN view.items[type].items} :
                    type \in DOMAIN view.items}

\* The modules of the loader's sources the aborted pass did not get to
NotTried ==
    UNION {{Turns(loader)[k].names[i] : i \in DOMAIN Turns(loader)[k].names} :
            k \in DOMAIN Turns(loader)} \ Tried

\* The implementations of the modules imported before the failing one stay in
\* the registry and are visible to another loader of the group, the sources
\* after the failing module contribute nothing, and the loaded flag is false
EarlierKept ==
    /\ \A m \in Tried \ {Failing} :
            ClassesOf(m) \subseteq (RegisteredNames \cap Visible)
    /\ \A m \in NotTried : ClassesOf(m) \cap RegisteredNames = {}
    /\ ~loader.loaded

\* C30: when discovery aborts with an import failure, every implementation
\* registered by the modules imported earlier in that pass stays in the
\* registry, the failing module and the sources after it contribute nothing,
\* and the implementations already registered are visible to the queries of
\* another loader of the same group although the failing loader's loaded flag
\* is still false.
C30_NoRollback ==
    Aborted => (EarlierKept /\ ClassesOf(Failing) \cap RegisteredNames = {})

\* The same without the part about the failing module
C30_EarlierModules == Aborted => EarlierKept

\* The pass was aborted by a module that raised after its class statement: the
\* implementation it defined is registered and visible, next to those of the
\* module imported before it
C30_FailingModule ==
    /\ Aborted
    /\ last.log = <<<<"modules", "lib.parsers.json">>, <<"modules", "bad2">>>>
    /\ ~loader.loaded
    /\ {"JSON", "JSON2", "Electric"} \subseteq (RegisteredNames \cap Visible)

====
